---------------------------- MODULE Spec2Model ----------------------------
(***************************************************************************)
(* Multi-environment connection and request fan-out layer of the           *)
(* Dynatrace Managed MCP server: environment validation                    *)
(* (src/utils/environment.ts), the per-environment connection, its proxy   *)
(* configuration and the manager                                           *)
(* (src/authentication/managed-auth-client.ts), and the parts of main()    *)
(* that drive them: construction, startup, tool calls, shutdown (index.ts).*)
(*                                                                         *)
(* A JavaScript string is a sequence of one-character strings, so that     *)
(* split, join, indexOf and Number are modelled by what they do.           *)
(***************************************************************************)
EXTENDS Integers, Sequences, FiniteSets, TLC

VARIABLES
    rawClients,     \* Manager.rawClients: the constructed connections, in order
    clients,        \* Manager.clients: indices into rawClients (object references)
    validAliases,   \* Manager.validAliases
    pc,             \* position of the server: "start", "aborted", "constructed",
                    \* "establishing", "ready", "crashed", "exited"
    est,            \* Manager.isConfigured loop: [i, step] of the connection being probed
    call,           \* the ManagedAuthClient.isConfigured call in progress: what its GETs gave
    hist,           \* per connection: what its own isConfigured call observed and returned
    q,              \* the makeRequests call in progress or just finished: status, cursor
                    \* `at` into clients, the local map `responses`, the error raised
                    \* (the connection it came from) and the log of requests issued
    vin,            \* validateEnvironments: the input list (SpecValidate)
    vout,           \* validateEnvironments: the returned {valid_configs, errors}
    ver,            \* validateMinimumVersion: the two versions as integer tuples
    verOut,         \* validateMinimumVersion: the strings passed and the result
    proxyIn,        \* setAxiosProxy: the two proxy parameters (SpecProxy)
    proxyOut,       \* setAxiosProxy: what it returned or that it threw
    conn,           \* one ManagedAuthClient on its own: its httpClient reference and
                    \* the axios instance it was built with (SpecClient)
    net,            \* what that client did: GETs that reached the cluster, cleanup
                    \* calls, and the outcome of the last operation
    initConfigs,    \* main(): the valid descriptors handed to the Manager's constructor
    rate,           \* the tool wrapper's rate limiter: the clock, toolCallTimestamps
                    \* and what each call of the wrapper did (SpecRate)
    logs            \* the log records written while connections are validated and
                    \* queried, once per value of the apiToken (SpecLog)

vars ==
    <<rawClients, clients, validAliases, pc, est, call, hist, q, vin, vout, ver, verOut,
      proxyIn, proxyOut, conn, net, initConfigs, rate, logs>>

(***************************************************************************)
(* Bounds of the model.                                                    *)
(***************************************************************************)
MaxEnvs == 3        \* connections of a Manager
MaxSelTokens == 2   \* tokens of a list selector
MaxConfigs == 2     \* descriptors handed to validateEnvironments
MaxParts == 3       \* components of a version
MaxSent == 3        \* GETs one connection on its own sends to its cluster
MaxCleanups == 2    \* cleanup() calls on one connection
MaxRegistered == 2  \* entries of clients up to which isConfigured is called again
MaxCalls == 7       \* calls of the tool wrapper
MaxLogEnvs == 2     \* connections validated while the log is recorded
MaxQueries == 2     \* queries made while the log is recorded

None == "none"

(***************************************************************************)
(* Strings.                                                                *)
(***************************************************************************)
Str1(c) == <<c>>
SEMI == ";"
DOT == "."

Range(s) == {s[i] : i \in 1..Len(s)}

\* String.prototype.indexOf(ch) for a one-character ch, 0-based, -1 when absent.
IndexOfChar(s, ch) ==
    IF \E i \in 1..Len(s) : s[i] = ch
    THEN (CHOOSE i \in 1..Len(s) : s[i] = ch /\ \A j \in 1..(i - 1) : s[j] # ch) - 1
    ELSE -1

\* String.prototype.split(sep) for a one-character separator.
RECURSIVE SplitFrom(_, _, _)
SplitFrom(s, sep, cur) ==
    IF s = <<>> THEN <<cur>>
    ELSE IF Head(s) = sep THEN <<cur>> \o SplitFrom(Tail(s), sep, <<>>)
    ELSE SplitFrom(Tail(s), sep, Append(cur, Head(s)))

Split(s, sep) == SplitFrom(s, sep, <<>>)

\* Array.prototype.join(sep).
RECURSIVE Join(_, _)
Join(parts, sep) ==
    IF parts = <<>> THEN <<>>
    ELSE IF Len(parts) = 1 THEN parts[1]
    ELSE parts[1] \o <<sep>> \o Join(Tail(parts), sep)

\* Array.prototype.indexOf(x) > -1 / Array.prototype.includes(x).
Includes(arr, x) == \E i \in 1..Len(arr) : arr[i] = x

\* All sequences over S of length lo..hi.
SeqsOf(S, lo, hi) == UNION {[1..n -> S] : n \in lo..hi}

(***************************************************************************)
(* Numbers in strings.                                                     *)
(***************************************************************************)
Digits == <<"0", "1", "2", "3", "4", "5", "6", "7", "8", "9">>
NaN == -1

DigitValue(c) == (CHOOSE i \in 1..Len(Digits) : Digits[i] = c) - 1
IsDigit(c) == \E i \in 1..Len(Digits) : Digits[i] = c

\* Number(s) on one component of a split version: the empty string is 0, a run
\* of decimal digits is its value, anything else is NaN.
RECURSIVE DigitsValue(_, _)
DigitsValue(s, acc) ==
    IF s = <<>> THEN acc ELSE DigitsValue(Tail(s), acc * 10 + DigitValue(Head(s)))

ToNumber(s) ==
    IF s = <<>> THEN 0
    ELSE IF \A i \in 1..Len(s) : IsDigit(s[i]) THEN DigitsValue(s, 0)
    ELSE NaN

\* String(n) of a natural number.
RECURSIVE NatToString(_)
NatToString(n) ==
    IF n < 10 THEN <<Digits[n + 1]>> ELSE NatToString(n \div 10) \o <<Digits[(n % 10) + 1]>>

\* A version tuple as the dotted string a cluster reports.
FormatVersion(t) == Join([i \in 1..Len(t) |-> NatToString(t[i])], DOT)

(***************************************************************************)
(* ManagedAuthClient.validateMinimumVersion                                *)
(***************************************************************************)
\* version.split('.').map(Number)
VersionParts(version) ==
    LET p == Split(version, DOT) IN [i \in 1..Len(p) |-> ToNumber(p[i])]

\* parts[i] || 0 : undefined (past the end), NaN and 0 all give 0.
PartOrZero(parts, i) ==
    IF i > Len(parts) THEN 0
    ELSE IF parts[i] = NaN THEN 0
    ELSE parts[i]

Max(a, b) == IF a >= b THEN a ELSE b

RECURSIVE CompareFrom(_, _, _)
CompareFrom(versionParts, minVersionParts, i) ==
    IF i > Max(Len(versionParts), Len(minVersionParts)) THEN TRUE
    ELSE LET current == PartOrZero(versionParts, i)
             minimum == PartOrZero(minVersionParts, i)
         IN  IF current > minimum THEN TRUE
             ELSE IF current < minimum THEN FALSE
             ELSE CompareFrom(versionParts, minVersionParts, i + 1)

\* A comparison that stops at the shorter version (no zero padding).
validateMinimumVersion_NoPadding(version, minimum) ==
    LET v == VersionParts(version)
        m == VersionParts(minimum)
        n == IF Len(v) <= Len(m) THEN Len(v) ELSE Len(m)
    IN  CompareFrom(SubSeq(v, 1, n), SubSeq(m, 1, n), 1)

validateMinimumVersion(version, minimum) ==
    CompareFrom(VersionParts(version), VersionParts(minimum), 1)

(***************************************************************************)
(* validateEnvironments (src/utils/environment.ts)                         *)
(***************************************************************************)
requiredKeys == <<"apiUrl", "environmentId", "alias", "apiToken">>

originalKeys ==
    [apiUrl |-> "apiEndpointUrl", environmentId |-> "environmentId",
     alias |-> "alias", apiToken |-> "apiToken"]

NA == <<"N", "/", "A">>

\* `Key "<key>" is empty or missing (environment #<index>, alias: <alias or N/A>). ...`
MissingKeyMessage(key, index, alias) ==
    [kind |-> "missing_key", key |-> originalKeys[key], index |-> index,
     alias |-> IF alias # <<>> THEN alias ELSE NA]

\* `Invalid alias found: "<alias>". Aliases are mandatory and cannot contain semicolons.`
InvalidAliasMessage(alias) ==
    [kind |-> "invalid_alias", key |-> "", index |-> -1, alias |-> alias]

\* requiredKeys.every(callback): the callback runs key by key and every() stops
\* at the first key whose callback returns a falsy value.
RECURSIVE EveryRequiredKey(_, _, _)
EveryRequiredKey(configuration, index, k) ==
    IF k > Len(requiredKeys) THEN [hasAllValues |-> TRUE, errors |-> <<>>]
    ELSE LET key == requiredKeys[k]
             value == configuration[key]
             isValid == Len(value) > 0
         IN  IF ~isValid
             THEN [hasAllValues |-> FALSE,
                   errors |-> <<MissingKeyMessage(key, index, configuration.alias)>>]
             ELSE EveryRequiredKey(configuration, index, k + 1)

\* The body of the forEach callback for one configuration: what it appends to
\* errors and whether it pushes the configuration to validConfigurations.
ValidateOne(configuration, index) ==
    LET every == EveryRequiredKey(configuration, index, 1)
        validAlias == IndexOfChar(configuration.alias, SEMI) = -1
    IN  [errors |-> every.errors \o
                    (IF ~validAlias THEN <<InvalidAliasMessage(configuration.alias)>> ELSE <<>>),
         push |-> validAlias /\ every.hasAllValues]

RECURSIVE ValidateFrom(_, _, _)
ValidateFrom(configs, i, acc) ==
    IF i > Len(configs) THEN acc
    ELSE LET one == ValidateOne(configs[i], i - 1)   \* forEach passes a 0-based index
         IN  ValidateFrom(configs, i + 1,
                 [valid_configs |-> IF one.push THEN Append(acc.valid_configs, configs[i])
                                    ELSE acc.valid_configs,
                  errors |-> acc.errors \o one.errors])

\* A validation that accepts a configuration with a ';' in its alias.
validateEnvironments_KeepsSemicolon(environmentConfigurations) ==
    LET r == ValidateFrom(environmentConfigurations, 1, [valid_configs |-> <<>>, errors |-> <<>>])
    IN  [valid_configs |-> SelectSeq(environmentConfigurations,
                               LAMBDA c : EveryRequiredKey(c, 0, 1).hasAllValues),
         errors |-> r.errors]

\* A validation that reports the ';' of an alias only when no key is missing.
validateEnvironments_SemicolonOnlyIfComplete(environmentConfigurations) ==
    LET r == ValidateFrom(environmentConfigurations, 1, [valid_configs |-> <<>>, errors |-> <<>>])
        Drop(m) == m.kind = "invalid_alias" /\
                   \E i \in 1..Len(environmentConfigurations) :
                       /\ environmentConfigurations[i].alias = m.alias
                       /\ ~EveryRequiredKey(environmentConfigurations[i], 0, 1).hasAllValues
    IN  [valid_configs |-> r.valid_configs,
         errors |-> SelectSeq(r.errors, LAMBDA m : ~Drop(m))]

validateEnvironments(environmentConfigurations) ==
    ValidateFrom(environmentConfigurations, 1, [valid_configs |-> <<>>, errors |-> <<>>])

(***************************************************************************)
(* setAxiosProxy (src/authentication/managed-auth-client.ts) and the two   *)
(* platform functions it calls, `new URL` and decodeURIComponent.          *)
(***************************************************************************)
\* String.prototype.lastIndexOf(ch), 0-based, -1 when absent.
LastIndexOfChar(s, ch) ==
    IF \E i \in 1..Len(s) : s[i] = ch
    THEN (CHOOSE i \in 1..Len(s) : s[i] = ch /\ \A j \in (i + 1)..Len(s) : s[j] # ch) - 1
    ELSE -1

RECURSIVE StripLeading(_, _)
StripLeading(s, ch) ==
    IF s # <<>> /\ Head(s) = ch THEN StripLeading(Tail(s), ch) ELSE s

HTTP == <<"h", "t", "t", "p">>
HTTPS == <<"h", "t", "t", "p", "s">>

\* The default port of a special scheme (WHATWG URL): it is never kept in
\* url.port.
DefaultPort(scheme) == IF scheme = HTTPS THEN 443 ELSE 80

InvalidURL ==
    [ok |-> FALSE, protocol |-> <<>>, username |-> <<>>, password |-> <<>>,
     hostname |-> <<>>, port |-> <<>>]

\* s up to the first ch (the whole of s when it has none).
Before(s, ch) == IF IndexOfChar(s, ch) = -1 THEN s ELSE SubSeq(s, 1, IndexOfChar(s, ch))

\* s after the first ch ('' when it has none).
After(s, ch) ==
    IF IndexOfChar(s, ch) = -1 THEN <<>> ELSE SubSeq(s, IndexOfChar(s, ch) + 2, Len(s))

\* s up to the last ch ('' when it has none), and s after it (the whole of s).
BeforeLast(s, ch) == SubSeq(s, 1, LastIndexOfChar(s, ch))
AfterLast(s, ch) == SubSeq(s, LastIndexOfChar(s, ch) + 2, Len(s))

\* The URL of a scheme, user-info, host and port string that were split apart.
URLOfParts(scheme, username, password, host, portStr, portNum) ==
    IF scheme \notin {HTTP, HTTPS} THEN InvalidURL
    ELSE IF host = <<>> \/ \E i \in 1..Len(host) : host[i] = " " THEN InvalidURL
    ELSE IF portNum = NaN \/ portNum > 65535 THEN InvalidURL
    ELSE [ok |-> TRUE,
          protocol |-> scheme \o <<":">>,
          username |-> username,
          password |-> password,
          hostname |-> host,
          port |-> IF portStr = <<>> \/ portNum = DefaultPort(scheme) THEN <<>>
                   ELSE NatToString(portNum)]

\* The authority splits at its last '@' into user-info and host[:port]; the
\* user-info at its first ':' into username and password.
URLOfAuthority(scheme, credentials, hostport) ==
    URLOfParts(scheme, Before(credentials, ":"), After(credentials, ":"),
               IF IndexOfChar(hostport, ":") = -1 THEN hostport
               ELSE BeforeLast(hostport, ":"),
               IF IndexOfChar(hostport, ":") = -1 THEN <<>>
               ELSE AfterLast(hostport, ":"),
               IF IndexOfChar(hostport, ":") = -1 THEN 0
               ELSE ToNumber(AfterLast(hostport, ":")))

URLOfSchemeAndRest(scheme, authority) ==
    URLOfAuthority(scheme, BeforeLast(authority, "@"), AfterLast(authority, "@"))

\* new URL(s) for an absolute http/https URL scheme://[user[:pass]@]host[:port]:
\* the fields setAxiosProxy reads. A TypeError (no scheme, empty host, a port
\* that is not a number below 65536) is ok = FALSE. url.port is '' when the
\* port is absent or is the default port of the scheme. Other schemes are not
\* among the inputs of the model and are refused here.
ParseURL(s) ==
    IF IndexOfChar(s, ":") <= 0 THEN InvalidURL
    ELSE URLOfSchemeAndRest(Before(s, ":"), Before(StripLeading(After(s, ":"), "/"), "/"))

HexDigits == <<"0", "1", "2", "3", "4", "5", "6", "7", "8", "9", "a", "b", "c", "d", "e", "f">>
UpperHexDigits == <<"0", "1", "2", "3", "4", "5", "6", "7", "8", "9", "A", "B", "C", "D", "E", "F">>
IsHex(c) == \E i \in 1..16 : HexDigits[i] = c \/ UpperHexDigits[i] = c
HexValue(c) == (CHOOSE i \in 1..16 : HexDigits[i] = c \/ UpperHexDigits[i] = c) - 1

\* The printable ASCII characters, from code 32 (space) to code 126 (~); the
\* grave accent (code 96) is written by its name.
AsciiPrintable ==
    <<" ", "!", "\"", "#", "$", "%", "&", "'", "(", ")", "*", "+", ",", "-", ".", "/",
      "0", "1", "2", "3", "4", "5", "6", "7", "8", "9", ":", ";", "<", "=", ">", "?",
      "@", "A", "B", "C", "D", "E", "F", "G", "H", "I", "J", "K", "L", "M", "N", "O",
      "P", "Q", "R", "S", "T", "U", "V", "W", "X", "Y", "Z", "[", "\\", "]", "^", "_",
      "grave", "a", "b", "c", "d", "e", "f", "g", "h", "i", "j", "k", "l", "m", "n", "o",
      "p", "q", "r", "s", "t", "u", "v", "w", "x", "y", "z", "{", "|", "}", "~">>

\* decodeURIComponent(s): every %XY of a printable ASCII code becomes its
\* character; a '%' not followed by two hex digits, or a lone byte that is not
\* ASCII, is a URIError (ok = FALSE).
RECURSIVE DecodeFrom(_, _)
DecodeFrom(s, acc) ==
    IF s = <<>> THEN [ok |-> TRUE, value |-> acc]
    ELSE IF Head(s) # "%" THEN DecodeFrom(Tail(s), Append(acc, Head(s)))
    ELSE IF Len(s) < 3 \/ ~IsHex(s[2]) \/ ~IsHex(s[3]) THEN [ok |-> FALSE, value |-> <<>>]
    ELSE LET code == 16 * HexValue(s[2]) + HexValue(s[3])
         IN  IF code < 32 \/ code >= 32 + Len(AsciiPrintable)
             THEN [ok |-> FALSE, value |-> <<>>]
             ELSE DecodeFrom(SubSeq(s, 4, Len(s)),
                             Append(acc, AsciiPrintable[code - 31]))

decodeURIComponent(s) == DecodeFrom(s, <<>>)

NoAuth == [present |-> FALSE, username |-> <<>>, password |-> <<>>]
ProxyUndefined ==
    [kind |-> "undefined", host |-> <<>>, port |-> 0, protocol |-> <<>>, auth |-> NoAuth]
ProxyThrows ==
    [kind |-> "throws", host |-> <<>>, port |-> 0, protocol |-> <<>>, auth |-> NoAuth]

\* The object setAxiosProxy returns for a parsed URL: auth only with a
\* username; a user-info that does not percent-decode is a URIError, thrown on
\* like the TypeError of new URL.
ProxyOfURL(url, port, username, password) ==
    IF ~url.ok THEN ProxyThrows
    ELSE IF url.username = <<>>
    THEN [kind |-> "config", host |-> url.hostname, port |-> ToNumber(port),
          protocol |-> url.protocol, auth |-> NoAuth]
    ELSE IF ~username.ok \/ ~password.ok THEN ProxyThrows
    ELSE [kind |-> "config", host |-> url.hostname, port |-> ToNumber(port),
          protocol |-> url.protocol,
          auth |-> [present |-> TRUE, username |-> username.value,
                    password |-> password.value]]

\* `port = url.port ? url.port : fallbackPort`, then the returned object.
ProxyOfParsed(url, fallbackPort) ==
    ProxyOfURL(url, IF url.port # <<>> THEN url.port ELSE fallbackPort,
               decodeURIComponent(url.username), decodeURIComponent(url.password))

\* The try block of setAxiosProxy once the parameter to parse is chosen: `port`
\* falls back to the default that goes with the parameter.
ProxyFromUrl(proxyUrl, fallbackPort) == ProxyOfParsed(ParseURL(proxyUrl), fallbackPort)

\* setAxiosProxy(httpProxy = '', httpsProxy = ''): undefined, a proxy
\* configuration, or Error('Failed to parse and configure http(s) proxy').
setAxiosProxy(httpProxy, httpsProxy) ==
    IF httpsProxy # <<>> /\ httpProxy # <<>> THEN ProxyUndefined
    ELSE IF httpsProxy = <<>> /\ httpProxy = <<>> THEN ProxyUndefined
    ELSE IF httpsProxy # <<>> THEN ProxyFromUrl(httpsProxy, <<"4", "4", "3">>)
    ELSE ProxyFromUrl(httpProxy, <<"8", "0">>)

(***************************************************************************)
(* ManagedAuthClient and ManagedAuthClientManager                          *)
(* (src/authentication/managed-auth-client.ts)                             *)
(***************************************************************************)
ALL_ENVIRONMENTS ==
    <<"A", "L", "L", "_", "E", "N", "V", "I", "R", "O", "N", "M", "E", "N", "T", "S">>

MINIMUM_VERSION == <<"1", ".", "3", "2", "8", ".", "0">>

\* What an axios GET can do: resolve with status 200, resolve with another 2xx
\* status (validateStatus accepts 200..299), or reject (any other status, a
\* redirect with maxRedirects 0, a timeout, a network error).
HttpOutcomes == {"200", "204", "error"}

\* axios.create({... timeout: 30000, maxRedirects: 0}): the instance object, with
\* no interceptor registered.
AxiosCreate == [timeout |-> 30000, requestHandlers |-> 0, responseHandlers |-> 0]

\* A constructor that starts the connection as usable.
NewManagedAuthClient_StartsValid(params) ==
    [alias |-> params.alias,
     dashboardBaseUrl |-> params.dashboardBaseUrl,
     proxy |-> setAxiosProxy(params.httpProxy, params.httpsProxy),
     isValid |-> TRUE,
     validationError |-> <<>>,
     httpClient |-> "instance",
     axios |-> AxiosCreate]

\* new ManagedAuthClient(params): isValid false unless given, validationError '',
\* httpClient a reference to a fresh axios instance. When setAxiosProxy throws
\* (proxy.kind = "throws") the constructor throws and no object exists.
NewManagedAuthClient(params) ==
    [alias |-> params.alias,
     dashboardBaseUrl |-> params.dashboardBaseUrl,
     proxy |-> setAxiosProxy(params.httpProxy, params.httpsProxy),
     isValid |-> FALSE,
     validationError |-> <<>>,
     httpClient |-> "instance",
     axios |-> AxiosCreate]

\* The parameters the Manager's constructor passes for one descriptor.
ClientParams(managedEnvironment) ==
    [alias |-> managedEnvironment.alias,
     dashboardBaseUrl |-> managedEnvironment.dashboardUrl,
     httpProxy |-> managedEnvironment.httpProxy,
     httpsProxy |-> managedEnvironment.httpsProxy]

\* The Manager whose constructor loop built `built` (an entry whose proxy.kind
\* is "throws" stands for a `new ManagedAuthClient` that threw) and whose
\* validAliases was assigned `aliases` before the loop.
ManagerOfClients(built, aliases) ==
    IF \E i \in 1..Len(built) : built[i].proxy.kind = "throws"
    THEN [threw |-> TRUE, rawClients |-> <<>>, clients |-> <<>>, validAliases |-> <<>>]
    ELSE [threw |-> FALSE, rawClients |-> built, clients |-> <<>>,
          validAliases |-> aliases]

\* A constructor that relies on the field initializer `validAliases = []`.
NewManagedAuthClientManager_NoSentinel(managedEnvironments) ==
    ManagerOfClients([i \in 1..Len(managedEnvironments) |->
                         NewManagedAuthClient(ClientParams(managedEnvironments[i]))],
                     <<>>)

\* new ManagedAuthClientManager(managedEnvironments): one connection per
\* descriptor, in order. Nothing catches what `new ManagedAuthClient` throws, so
\* the first descriptor whose proxy does not parse makes the constructor throw
\* and no Manager exists (threw = TRUE).
NewManagedAuthClientManager(managedEnvironments) ==
    ManagerOfClients([i \in 1..Len(managedEnvironments) |->
                         NewManagedAuthClient(ClientParams(managedEnvironments[i]))],
                     <<ALL_ENVIRONMENTS>>)

\* A cleanup that resets the instance but keeps the reference to it.
cleanup_KeepsReference(client) ==
    IF client.httpClient # "null"
    THEN [client EXCEPT !.axios = [timeout |-> 1, requestHandlers |-> 0,
                                   responseHandlers |-> 0]]
    ELSE client

\* ManagedAuthClient.cleanup(): on a live reference, clear both interceptor
\* lists of the instance, set its default timeout to 1 and drop the reference;
\* on a dropped reference, nothing.
cleanup(client) ==
    IF client.httpClient # "null"
    THEN [client EXCEPT !.axios = [timeout |-> 1, requestHandlers |-> 0,
                                   responseHandlers |-> 0],
                        !.httpClient = "null"]
    ELSE client

(***************************************************************************)
(* ManagedAuthClient.validateConnection, split at its two awaits.          *)
(***************************************************************************)
\* The first GET (/api/v1/config/clusterversion) settled with outcome o:
\* "true"/"false" is the value returned, "fallback" enters the catch block.
validateConnectionFirst(o) ==
    IF o = "error" THEN "fallback"
    ELSE IF o = "200" THEN "true" ELSE "false"

\* The fallback GET (/api/v2/metrics, pageSize 1) settled with outcome o.
validateConnectionFallback(o) ==
    IF o = "error" THEN "false"
    ELSE IF o = "200" THEN "true" ELSE "false"

(***************************************************************************)
(* ManagedAuthClient.isConfigured                                          *)
(***************************************************************************)
ConnectionFailedMessage(alias) ==
    <<"Connection validation failed: Can't connect to environment ">> \o alias

InvalidVersionMessage(alias, version, minimum) ==
    <<"Environment \"">> \o alias \o <<"\" version ">> \o version \o
    <<" may not support all features. Minimum recommended version is ">> \o minimum

FailedToConnectMessage(alias, errorMessage) ==
    <<"Failed to connect to Managed environment \"">> \o alias \o <<"\": ">> \o
    <<errorMessage>> \o <<". Please verify connection details are correct.">>

\* What getClusterVersion's GET can give isConfigured: a rejection, a body
\* without a version string, or a body with a dotted version.
FetchError == [kind |-> "error", version |-> <<>>]
FetchMalformed == [kind |-> "malformed", version |-> <<>>]
FetchVersion(v) == [kind |-> "version", version |-> v]

\* validateConnection returned isConnected ("true"/"false"): the value
\* isConfigured returns at once, or "fetch" when it goes on to getClusterVersion.
isConfiguredOnConnected(client, isConnected) ==
    IF isConnected = "false"
    THEN [ret |-> "false", validationError |-> ConnectionFailedMessage(client.alias)]
    ELSE [ret |-> "fetch", validationError |-> client.validationError]

\* An isConfigured that flags a cluster below the minimum version but still
\* reports the connection as configured.
isConfiguredOnFetch_FlagsOnly(client, f, minimum) ==
    IF f.kind = "error"
    THEN [ret |-> "false",
          validationError |-> FailedToConnectMessage(client.alias, "Request failed")]
    ELSE IF f.kind = "malformed"
    THEN [ret |-> "false",
          validationError |-> FailedToConnectMessage(client.alias,
              "Cannot read properties of undefined (reading 'split')")]
    ELSE IF ~validateMinimumVersion(f.version, minimum)
    THEN [ret |-> "true",
          validationError |-> InvalidVersionMessage(client.alias, f.version, minimum)]
    ELSE [ret |-> "true", validationError |-> client.validationError]

\* An isConfigured whose try block does not cover getClusterVersion.
isConfiguredOnFetch_Rethrows(client, f, minimum) ==
    IF f.kind = "error"
    THEN [ret |-> "raised", validationError |-> client.validationError]
    ELSE IF f.kind = "malformed"
    THEN [ret |-> "false",
          validationError |-> FailedToConnectMessage(client.alias,
              "Cannot read properties of undefined (reading 'split')")]
    ELSE IF ~validateMinimumVersion(f.version, minimum)
    THEN [ret |-> "false",
          validationError |-> InvalidVersionMessage(client.alias, f.version, minimum)]
    ELSE [ret |-> "true", validationError |-> client.validationError]

\* An isConfigured that trusts the connectivity probe when the version cannot
\* be fetched.
isConfiguredOnFetch_TrustsProbe(client, f, minimum) ==
    IF f.kind = "error"
    THEN [ret |-> "true", validationError |-> client.validationError]
    ELSE IF f.kind = "malformed"
    THEN [ret |-> "false",
          validationError |-> FailedToConnectMessage(client.alias,
              "Cannot read properties of undefined (reading 'split')")]
    ELSE IF ~validateMinimumVersion(f.version, minimum)
    THEN [ret |-> "false",
          validationError |-> InvalidVersionMessage(client.alias, f.version, minimum)]
    ELSE [ret |-> "true", validationError |-> client.validationError]

\* getClusterVersion settled with f: the rest of the try block and the catch.
isConfiguredOnFetch(client, f, minimum) ==
    IF f.kind = "error"
    THEN [ret |-> "false",
          validationError |-> FailedToConnectMessage(client.alias, "Request failed")]
    ELSE IF f.kind = "malformed"
    THEN [ret |-> "false",
          validationError |-> FailedToConnectMessage(client.alias,
              "Cannot read properties of undefined (reading 'split')")]
    ELSE IF ~validateMinimumVersion(f.version, minimum)
    THEN [ret |-> "false",
          validationError |-> InvalidVersionMessage(client.alias, f.version, minimum)]
    ELSE [ret |-> "true", validationError |-> client.validationError]

(***************************************************************************)
(* ManagedAuthClientManager.isConfigured: the loop body after               *)
(* `await client.isConfigured()` gave validClient for rawClients[i].       *)
(***************************************************************************)
\* A loop body that marks every connection once one of them is configured.
ManagerOnValidClient_MarksAll(m, i, validClient) ==
    IF validClient = "true"
    THEN [rawClients |-> [j \in 1..Len(m.rawClients) |->
                            [m.rawClients[j] EXCEPT !.isValid = TRUE]],
          clients |-> Append(m.clients, i),
          validAliases |-> Append(m.validAliases, m.rawClients[i].alias)]
    ELSE m

\* A loop body that puts a promoted connection at the front of the lists.
ManagerOnValidClient_Prepends(m, i, validClient) ==
    IF validClient = "true"
    THEN [rawClients |-> [m.rawClients EXCEPT ![i].isValid = TRUE],
          clients |-> <<i>> \o m.clients,
          validAliases |-> Append(m.validAliases, m.rawClients[i].alias)]
    ELSE m

ManagerOnValidClient(m, i, validClient) ==
    IF validClient = "true"
    THEN [rawClients |-> [m.rawClients EXCEPT ![i].isValid = TRUE],
          clients |-> Append(m.clients, i),
          validAliases |-> Append(m.validAliases, m.rawClients[i].alias)]
    ELSE m

(***************************************************************************)
(* ManagedAuthClientManager.makeRequests                                   *)
(***************************************************************************)
\* environments === 'ALL_ENVIRONMENTS' ? this.validAliases : environments.split(';')
SelectedAliases(environments, aliases) ==
    IF environments = ALL_ENVIRONMENTS THEN aliases ELSE Split(environments, SEMI)

\* A loop that asks only the first usable connection of each alias.
NextSelected_FirstPerAlias(cl, raw, selectedAliases, from) ==
    LET hits == {k \in from..Len(cl) :
                    /\ Includes(selectedAliases, raw[cl[k]].alias)
                    /\ \A j \in 1..(k - 1) : raw[cl[j]].alias # raw[cl[k]].alias}
    IN  IF hits = {} THEN 0 ELSE CHOOSE k \in hits : \A j \in hits : k <= j

\* The for loop over this.clients from position `from`: the position of the next
\* client whose alias is selected, 0 when the loop runs to its end.
NextSelected(cl, raw, selectedAliases, from) ==
    LET hits == {k \in from..Len(cl) : Includes(selectedAliases, raw[cl[k]].alias)}
    IN  IF hits = {} THEN 0 ELSE CHOOSE k \in hits : \A j \in hits : k <= j

\* A map that puts a new key first.
MapSet_Prepend(m, key, value) ==
    IF \E k \in 1..Len(m) : m[k].key = key
    THEN [k \in 1..Len(m) |-> IF m[k].key = key THEN [key |-> key, value |-> value] ELSE m[k]]
    ELSE <<[key |-> key, value |-> value]>> \o m

\* Map.prototype.set: a new key is appended, an existing key keeps its place.
MapSet(m, key, value) ==
    IF \E k \in 1..Len(m) : m[k].key = key
    THEN [k \in 1..Len(m) |-> IF m[k].key = key THEN [key |-> key, value |-> value] ELSE m[k]]
    ELSE Append(m, [key |-> key, value |-> value])

MapKeys(m) == [k \in 1..Len(m) |-> m[k].key]

IdleQuery ==
    [status |-> "idle", op |-> None, selector |-> <<>>, environments |-> <<>>, at |-> 0,
     responses |-> <<>>, error |-> 0, issued |-> <<>>, value |-> <<>>]

\* makeRequests up to its first await (or to its return when nothing is selected).
MakeRequestsBegin(selector, environments, cl, raw, aliases) ==
    LET at == NextSelected(cl, raw, SelectedAliases(environments, aliases), 1)
    IN  [status |-> IF at = 0 THEN "returned" ELSE "running", op |-> "makeRequests",
         selector |-> selector, environments |-> environments, at |-> at,
         responses |-> <<>>, error |-> 0, issued |-> <<>>, value |-> <<>>]

\* A makeRequests that issues a failed request once more.
MakeRequestsResume_Retries(q0, ok, cl, raw, aliases) ==
    LET i == cl[q0.at]
        log == Append(q0.issued, [client |-> i, ok |-> ok])
        retried == \E k \in 1..Len(q0.issued) : q0.issued[k].client = i
    IN  IF ~ok /\ ~retried
        THEN [q0 EXCEPT !.issued = log]
        ELSE IF ~ok
        THEN [q0 EXCEPT !.status = "raised", !.at = 0, !.responses = <<>>, !.error = i,
                        !.issued = log]
        ELSE LET at == NextSelected(cl, raw, SelectedAliases(q0.environments, aliases),
                                    q0.at + 1)
             IN  [q0 EXCEPT !.status = IF at = 0 THEN "returned" ELSE "running",
                            !.at = at,
                            !.responses = MapSet(q0.responses, raw[i].alias, i),
                            !.issued = log]

\* A makeRequests that skips a connection whose request fails and goes on.
MakeRequestsResume_SwallowsErrors(q0, ok, cl, raw, aliases) ==
    LET i == cl[q0.at]
        log == Append(q0.issued, [client |-> i, ok |-> ok])
        at == NextSelected(cl, raw, SelectedAliases(q0.environments, aliases), q0.at + 1)
    IN  [q0 EXCEPT !.status = IF at = 0 THEN "returned" ELSE "running",
                   !.at = at,
                   !.responses = IF ok THEN MapSet(q0.responses, raw[i].alias, i)
                                 ELSE q0.responses,
                   !.issued = log]

\* The awaited client.makeRequest settled: ok = FALSE is a rejection, which leaves
\* makeRequests through the await with the error of that connection (the local
\* map is dropped); otherwise the response is stored and the loop goes on to the
\* next selected client or returns the map.
MakeRequestsResume(q0, ok, cl, raw, aliases) ==
    LET i == cl[q0.at]
        log == Append(q0.issued, [client |-> i, ok |-> ok])
    IN  IF ~ok
        THEN [q0 EXCEPT !.status = "raised", !.at = 0, !.responses = <<>>, !.error = i,
                        !.issued = log]
        ELSE LET at == NextSelected(cl, raw, SelectedAliases(q0.environments, aliases),
                                    q0.at + 1)
             IN  [q0 EXCEPT !.status = IF at = 0 THEN "returned" ELSE "running",
                            !.at = at,
                            !.responses = MapSet(q0.responses, raw[i].alias, i),
                            !.issued = log]

(***************************************************************************)
(* ManagedAuthClientManager.getBaseUrl                                     *)
(***************************************************************************)
RECURSIVE getBaseUrlFrom(_, _, _, _)
getBaseUrlFrom(cl, raw, alias, k) ==
    IF k > Len(cl) THEN <<>>
    ELSE IF raw[cl[k]].alias = alias THEN raw[cl[k]].dashboardBaseUrl
    ELSE getBaseUrlFrom(cl, raw, alias, k + 1)

\* The dashboard URL of the first usable connection with this alias, else ''.
getBaseUrl(cl, raw, alias) == getBaseUrlFrom(cl, raw, alias, 1)

(***************************************************************************)
(* The tools of the server (index.ts): the refinement of every             *)
(* environment_alias parameter, and the environment report.                *)
(***************************************************************************)
\* An envAliasValidate that is satisfied by one known token.
envAliasValidate_SomeToken(alias, aliases) ==
    IF alias = ALL_ENVIRONMENTS THEN TRUE
    ELSE LET env_list == Split(alias, SEMI)
         IN  \E k \in 1..Len(env_list) : Includes(aliases, env_list[k])

\* envAliasValidate(alias) against authClientManager.validAliases.
envAliasValidate(alias, aliases) ==
    IF alias = ALL_ENVIRONMENTS THEN TRUE
    ELSE LET env_list == Split(alias, SEMI)
         IN  \A k \in 1..Len(env_list) : Includes(aliases, env_list[k])

\* A tool call whose environment_alias failed the refinement: the schema
\* rejects the arguments and the tool's callback does not run.
RejectedQuery(selector, environments) ==
    [IdleQuery EXCEPT !.status = "rejected", !.op = "makeRequests",
                      !.selector = selector, !.environments = environments]

\* dynatrace_managed_get_environments_info: the next connection from `from` on
\* whose isValid makes the report await its getClusterVersion, 0 when none.
NextReported(raw, from) ==
    IF \E i \in from..Len(raw) : raw[i].isValid
    THEN CHOOSE i \in from..Len(raw) :
            raw[i].isValid /\ \A j \in from..(i - 1) : ~raw[j].isValid
    ELSE 0

\* The report up to its first await (or to its return).
EnvironmentsInfoBegin(raw) ==
    LET at == NextReported(raw, 1)
    IN  [IdleQuery EXCEPT !.status = IF at = 0 THEN "answered" ELSE "reporting",
                          !.op = "get_environments_info", !.at = at]

\* The awaited getClusterVersion settled with f: a rejection, or a body whose
\* version validateMinimumVersion cannot split, leaves the callback with an
\* error; otherwise the report goes on.
EnvironmentsInfoResume(q0, f, raw) ==
    IF f.kind # "version"
    THEN [q0 EXCEPT !.status = "failed", !.error = q0.at, !.at = 0]
    ELSE LET at == NextReported(raw, q0.at + 1)
         IN  [q0 EXCEPT !.status = IF at = 0 THEN "answered" ELSE "reporting",
                        !.at = at]

(***************************************************************************)
(* Inputs of the model.                                                    *)
(***************************************************************************)
AliasLetters == <<"a", "b", "c", "d", "e">>
AliasName(k) == Str1(AliasLetters[k])

\* Alias lists of the valid descriptors a Manager is built from, up to a renaming
\* of the aliases: the first alias is "a" and a new alias is the next unused
\* letter. Aliases may repeat (uniqueness is not enforced anywhere).
AliasIndexLists ==
    {l \in SeqsOf(1..MaxEnvs, 1, MaxEnvs) :
        /\ l[1] = 1
        /\ \A i \in 2..Len(l) : \E j \in 1..(i - 1) : l[i] <= l[j] + 1}

\* The dashboard URL of the i-th descriptor (each descriptor has its own).
DashboardUrl(i) == <<"u">> \o NatToString(i)

\* A proxy setting that `new URL` refuses.
MalformedProxy == <<"n", "o", "t", " ", "a", " ", "u", "r", "l">>

\* The descriptors main() hands to the Manager: each without a proxy or with
\* an HTTP proxy that does not parse (what a proxy that parses becomes is
\* explored on setAxiosProxy itself).
ManagedEnvironmentLists ==
    UNION {{[i \in 1..Len(l) |->
               [alias |-> AliasName(l[i]), dashboardUrl |-> DashboardUrl(i),
                httpProxy |-> px[i], httpsProxy |-> <<>>]] :
            px \in [1..Len(l) -> {<<>>, MalformedProxy}]} : l \in AliasIndexLists}

\* Proxy URLs handed to setAxiosProxy: scheme://[user[:pass]@]host[:port], a
\* string that is no URL, a URL without host, or nothing.
ProxySchemes == {HTTP, HTTPS}
ProxyPorts == {<<>>, <<"8", "0">>, <<"4", "4", "3">>, <<"8", "0", "8", "0">>}
NoCredentials == [present |-> FALSE, username |-> <<>>, password |-> <<>>]
ProxyCredentials ==
    {NoCredentials,
     [present |-> TRUE, username |-> <<"u">>, password |-> <<"p">>],
     [present |-> TRUE, username |-> <<"u">>, password |-> <<>>],
     [present |-> TRUE, username |-> <<"%", "4", "1">>, password |-> <<"%", "4", "0">>],
     [present |-> TRUE, username |-> <<"%">>, password |-> <<>>],
     [present |-> TRUE, username |-> <<>>, password |-> <<"p">>]}
ProxyHost == <<"h">>
UnsetProxy ==
    [kind |-> "unset", scheme |-> <<>>, credentials |-> NoCredentials, port |-> <<>>]
ProxySettings ==
    {UnsetProxy}
    \cup {[kind |-> k, scheme |-> <<>>, credentials |-> NoCredentials, port |-> <<>>] :
            k \in {"nourl", "nohost"}}
    \cup [kind : {"url"}, scheme : ProxySchemes, credentials : ProxyCredentials,
           port : ProxyPorts]

\* The string of a proxy setting.
ProxyText(x) ==
    IF x.kind = "unset" THEN <<>>
    ELSE IF x.kind = "nourl" THEN MalformedProxy
    ELSE IF x.kind = "nohost" THEN HTTP \o <<":", "/", "/">>
    ELSE x.scheme \o <<":", "/", "/">>
         \o (IF x.credentials.present
             THEN x.credentials.username
                  \o (IF x.credentials.password # <<>>
                      THEN <<":">> \o x.credentials.password ELSE <<>>)
                  \o <<"@">>
             ELSE <<>>)
         \o ProxyHost
         \o (IF x.port # <<>> THEN <<":">> \o x.port ELSE <<>>)

\* The versions a cluster may report (as tuples; the wire carries the string).
ClusterVersions == {<<1, 328>>, <<1, 319, 0>>}

\* What the cluster does to the GET of getClusterVersion, and the body
\* isConfigured then sees (a reported version travels as its dotted string).
FetchOutcomes == {FetchError, FetchMalformed} \cup {FetchVersion(t) : t \in ClusterVersions}
WireBody(f) == IF f.kind = "version" THEN FetchVersion(FormatVersion(f.version)) ELSE f

\* Selectors a caller may pass: the sentinel, or a ';'-joined list of tokens.
SelectorTokens == {AliasName(1), AliasName(2), AliasName(3)}
AllSelector == [kind |-> "all", tokens |-> <<>>]
\* A ';'-separated list that ends with the sentinel, as in "a;ALL_ENVIRONMENTS".
SentinelLists ==
    {[kind |-> "list", tokens |-> <<t, ALL_ENVIRONMENTS>>] : t \in SelectorTokens}
Selectors ==
    {AllSelector}
        \cup {[kind |-> "list", tokens |-> t] : t \in SeqsOf(SelectorTokens, 1, MaxSelTokens)}
        \cup SentinelLists
SelectorString(sel) == IF sel.kind = "all" THEN ALL_ENVIRONMENTS ELSE Join(sel.tokens, SEMI)

\* Descriptors handed to validateEnvironments: each required field empty or not,
\* the alias with or without a ';'.
FieldValues == {<<>>, <<"x">>}
ConfigAliases == {<<>>, <<"a">>, <<"b">>, <<"a", ";", "b">>}
Configurations ==
    [apiUrl : FieldValues, environmentId : FieldValues, alias : ConfigAliases,
     apiToken : FieldValues]

\* Version components: one and three digits, so that a numeric and a textual
\* comparison differ.
VersionComponents == {0, 1, 9, 328}
VersionTuples == SeqsOf(VersionComponents, 1, MaxParts)

(***************************************************************************)
(* The rate limiter of the tool wrapper (index.ts, wrappedCb).             *)
(***************************************************************************)
RateLimit == 5
RateWindow == 20000

\* `toolCallTimestamps.filter((ts) => ts > twentySecondsAgo)`
RecentCalls(toolCallTimestamps, startTime) ==
    SelectSeq(toolCallTimestamps, LAMBDA ts : ts > startTime - RateWindow)

\* A wrapper that keeps a call made exactly 20 s ago in the window.
wrappedCb_KeepsBoundary(toolCallTimestamps, startTime) ==
    LET kept == SelectSeq(toolCallTimestamps, LAMBDA ts : ts >= startTime - RateWindow)
    IN  IF Len(kept) >= RateLimit
        THEN [toolCallTimestamps |-> kept, limited |-> TRUE, started |-> FALSE]
        ELSE [toolCallTimestamps |-> Append(kept, startTime), limited |-> FALSE,
              started |-> TRUE]

\* wrappedCb from `const startTime = Date.now()` to the start of the tool's
\* callback: the timestamps kept, whether the rate-limit result (isError with
\* the text "Rate limit exceeded: ...") was returned, and whether cb started.
\* No await lies between the filter and the push.
wrappedCb(toolCallTimestamps, startTime) ==
    IF Len(RecentCalls(toolCallTimestamps, startTime)) >= RateLimit
    THEN [toolCallTimestamps |-> RecentCalls(toolCallTimestamps, startTime),
          limited |-> TRUE, started |-> FALSE]
    ELSE [toolCallTimestamps |-> Append(RecentCalls(toolCallTimestamps, startTime),
                                        startTime),
          limited |-> FALSE, started |-> TRUE]

\* The time between two calls of the wrapper: none, a millisecond, one
\* millisecond less than the window, the window.
Delays == {0, 1, RateWindow - 1, RateWindow}

NoRate == [now |-> 0, toolCallTimestamps |-> <<>>, calls |-> <<>>]
RateIdle == rate = NoRate

(***************************************************************************)
(* What the logger is given while a connection is validated                *)
(* (managed-auth-client.ts: constructor, validateConnection, isConfigured).*)
(***************************************************************************)
\* Two values of one environment's apiToken.
ApiTokens == {"t1", "t2"}

\* `headers` of axios.create in the constructor.
HttpClientHeaders(apiToken) ==
    [Authorization |-> <<"Api-Token ", apiToken>>,
     ContentType |-> "application/json",
     Connection |-> "close"]

\* The error a GET of this.httpClient rejects with: its message and the
\* configuration of the request, which holds the instance's headers.
TransportError(apiToken) ==
    [message |-> "Request failed", config |-> [headers |-> HttpClientHeaders(apiToken)]]

\* No metadata object passed to the logger.
NoMeta == [message |-> None, config |-> [headers |-> HttpClientHeaders(None)]]

\* One call of the logger: level, message and the `{ error: ... }` metadata.
LogRecord(level, message, error) == [level |-> level, message |-> message, error |-> error]

\* The log calls of validateConnection after its first GET settled with o.
LogValidateConnectionFirst(alias, o, apiToken) ==
    IF o = "error"
    THEN <<LogRecord("error",
                     <<"[Alias: ">> \o alias \o
                     <<"] Failed calling /api/v1/config/clusterversion; falling back to /api/v2/metrics">>,
                     TransportError(apiToken))>>
    ELSE <<>>

\* The log calls of validateConnection after its fallback GET settled with o.
LogValidateConnectionFallback(alias, o, apiToken) ==
    IF o = "error"
    THEN <<LogRecord("error",
                     <<"[Alias: ">> \o alias \o <<"] Failed calling /api/v2/metrics">>,
                     TransportError(apiToken))>>
    ELSE <<>>

\* The first statement of isConfigured.
LogIsConfiguredStart(alias) ==
    <<LogRecord("info",
                <<"Testing connection to Dynatrace Managed environment \"">> \o alias
                    \o <<"\"...">>,
                NoMeta)>>

\* The log calls of isConfigured once validateConnection returned isConnected.
LogIsConfiguredOnConnected(isConnected) ==
    IF isConnected = "true"
    THEN <<LogRecord("info", <<"Called validateConnection">>, NoMeta)>>
    ELSE <<>>

\* The five logger.error calls of the catch block of isConfigured.
LogConnectionError(alias, errorMessage) ==
    <<LogRecord("error",
                <<"[CONNECTION ERROR] Failed to connect to Managed environment \"">>
                    \o alias \o <<"\": ", errorMessage, ".">>,
                NoMeta),
      LogRecord("error", <<"Please verify:">>, NoMeta),
      LogRecord("error", <<"1. DT_ENVIRONMENT_CONFIGS is correct">>, NoMeta),
      LogRecord("error", <<"2. API Token has required scopes: ">>, NoMeta),
      LogRecord("error", <<"3. Network connectivity to the Managed environment">>,
                NoMeta)>>

\* The log calls of isConfigured once the GET of getClusterVersion settled
\* with f.
LogIsConfiguredOnFetch(alias, f, minimum) ==
    IF f.kind = "error"
    THEN LogConnectionError(alias, TransportError(None).message)
    ELSE IF f.kind = "malformed"
    THEN <<LogRecord("info", <<"Connected to Managed cluster version undefined">>,
                     NoMeta)>>
         \o LogConnectionError(alias,
                "Cannot read properties of undefined (reading 'split')")
    ELSE <<LogRecord("info", <<"Connected to Managed cluster version ">> \o f.version,
                     NoMeta)>>
         \o (IF validateMinimumVersion(f.version, minimum)
             THEN <<>>
             ELSE <<LogRecord("info", InvalidVersionMessage(alias, f.version, minimum),
                              NoMeta)>>)

\* The two logger.error calls of the tool wrapper's catch block when the
\* tool's callback rejects with the error of a failed GET.
LogToolFailure(apiToken) ==
    <<LogRecord("error", <<"Failed to run tool: ", TransportError(apiToken).message>>,
                TransportError(apiToken)),
      LogRecord("error", <<TransportError(apiToken).message>>, TransportError(apiToken))>>

NoLogs ==
    [i |-> 0, step |-> "off", envs |-> 0, queries |-> 0,
     written |-> [t \in ApiTokens |-> <<>>]]
LogIdle == logs = NoLogs

(***************************************************************************)
(* State machine of the server: construction, startup validation pass,     *)
(* queries.                                                                *)
(***************************************************************************)
Manager == [rawClients |-> rawClients, clients |-> clients, validAliases |-> validAliases]

NoCall == [client |-> 0, cv |-> None, metrics |-> None, fetch |-> None]
NewCall(i) == [client |-> i, cv |-> None, metrics |-> None, fetch |-> None]
NoHist == [ret |-> None, connected |-> None, reported |-> <<>>]
IdleEst == [i |-> 0, step |-> "idle"]

ValidateIdle ==
    /\ vin = <<>>
    /\ vout = [done |-> FALSE, valid_configs |-> <<>>, errors |-> <<>>]

VersionIdle ==
    /\ ver = [version |-> <<>>, minimum |-> <<>>]
    /\ verOut = [done |-> FALSE, version |-> <<>>, minimum |-> <<>>, result |-> FALSE]

ProxyIdle ==
    /\ proxyIn = [httpProxy |-> UnsetProxy, httpsProxy |-> UnsetProxy]
    /\ proxyOut = [done |-> FALSE, result |-> ProxyUndefined]

NoPending == [op |-> None, step |-> None]
NoNet == [sent |-> 0, cleanups |-> 0, lateSent |-> FALSE, pending |-> NoPending,
          last |-> [op |-> None, outcome |-> None]]

ClientIdle ==
    /\ conn = None
    /\ net = NoNet

PureIdle ==
    /\ ValidateIdle
    /\ VersionIdle
    /\ ProxyIdle
    /\ ClientIdle
    /\ RateIdle
    /\ LogIdle

ServerOff ==
    /\ rawClients = <<>>
    /\ clients = <<>>
    /\ validAliases = <<>>
    /\ pc = "off"
    /\ est = IdleEst
    /\ call = NoCall
    /\ hist = <<>>
    /\ q = IdleQuery
    /\ initConfigs = <<>>

pureVars == <<vin, vout, ver, verOut, proxyIn, proxyOut, conn, net, rate, logs>>
serverVars == <<rawClients, clients, validAliases, pc, est, call, hist, q, initConfigs>>

\* main() after validateEnvironments: at least one valid descriptor (it exits
\* otherwise), no Manager yet.
Init ==
    /\ initConfigs \in ManagedEnvironmentLists
    /\ rawClients = <<>>
    /\ clients = <<>>
    /\ validAliases = <<>>
    /\ hist = <<>>
    /\ pc = "start"
    /\ est = IdleEst
    /\ call = NoCall
    /\ q = IdleQuery
    /\ PureIdle

\* main(): `new ManagedAuthClientManager(initConfigs)`. What the constructor
\* throws leaves main(); main().catch logs it and exits with status 1.
MainConstructsManager ==
    /\ pc = "start"
    /\ LET m == NewManagedAuthClientManager(initConfigs)
       IN  /\ rawClients' = m.rawClients
           /\ clients' = m.clients
           /\ validAliases' = m.validAliases
           /\ hist' = [i \in 1..Len(m.rawClients) |-> NoHist]
           /\ pc' = IF m.threw THEN "aborted" ELSE "constructed"
    /\ UNCHANGED <<est, call, q, initConfigs, pureVars>>

\* main(): `await authClientManager.isConfigured()` starts the loop, which calls
\* the first connection's isConfigured, which issues the first probe GET.
ManagerIsConfigured ==
    /\ pc = "constructed"
    /\ pc' = "establishing"
    /\ est' = [i |-> 1, step |-> "cv"]
    /\ call' = NewCall(1)
    /\ UNCHANGED <<rawClients, clients, validAliases, hist, q, initConfigs, pureVars>>

\* isConfigured of connection i returns `r.ret` with `r.validationError` written.
ClientReturns(i, r, connected, reported) ==
    /\ rawClients' = [rawClients EXCEPT ![i].validationError = r.validationError]
    /\ hist' = [hist EXCEPT ![i] = [ret |-> r.ret, connected |-> connected,
                                    reported |-> reported]]
    /\ est' = [est EXCEPT !.step = "returned"]

\* The GET /api/v1/config/clusterversion of validateConnection settles.
ClusterVersionProbeResponds ==
    /\ pc = "establishing" /\ est.step = "cv"
    /\ \E o \in HttpOutcomes :
          LET first == validateConnectionFirst(o)
              r == isConfiguredOnConnected(rawClients[est.i], first)
          IN  /\ call' = [call EXCEPT !.cv = o]
              /\ IF first = "fallback"
                 THEN /\ est' = [est EXCEPT !.step = "metrics"]
                      /\ UNCHANGED <<rawClients, hist>>
                 ELSE IF r.ret = "fetch"
                 THEN /\ est' = [est EXCEPT !.step = "fetch"]
                      /\ hist' = [hist EXCEPT ![est.i].connected = first]
                      /\ UNCHANGED rawClients
                 ELSE ClientReturns(est.i, r, first, <<>>)
    /\ UNCHANGED <<clients, validAliases, pc, q, initConfigs, pureVars>>

\* The fallback GET /api/v2/metrics of validateConnection settles.
MetricsProbeResponds ==
    /\ pc = "establishing" /\ est.step = "metrics"
    /\ \E o \in HttpOutcomes :
          LET isConnected == validateConnectionFallback(o)
              r == isConfiguredOnConnected(rawClients[est.i], isConnected)
          IN  /\ call' = [call EXCEPT !.metrics = o]
              /\ IF r.ret = "fetch"
                 THEN /\ est' = [est EXCEPT !.step = "fetch"]
                      /\ hist' = [hist EXCEPT ![est.i].connected = isConnected]
                      /\ UNCHANGED rawClients
                 ELSE ClientReturns(est.i, r, isConnected, <<>>)
    /\ UNCHANGED <<clients, validAliases, pc, q, initConfigs, pureVars>>

\* The GET of getClusterVersion settles; isConfigured runs to its return.
ClusterVersionFetchResponds ==
    /\ pc = "establishing" /\ est.step = "fetch"
    /\ \E f \in FetchOutcomes :
          LET r == isConfiguredOnFetch(rawClients[est.i], WireBody(f), MINIMUM_VERSION)
          IN  /\ call' = [call EXCEPT !.fetch = f.kind]
              /\ ClientReturns(est.i, r, hist[est.i].connected, f.version)
    /\ UNCHANGED <<clients, validAliases, pc, q, initConfigs, pureVars>>

\* The Manager's loop resumes with the value of `await client.isConfigured()`,
\* promotes the connection when it is true, and goes on to the next connection
\* (issuing its first probe GET) or returns. A rejection leaves the loop.
ManagerContinues ==
    /\ pc = "establishing" /\ est.step = "returned"
    /\ LET validClient == hist[est.i].ret
           m == ManagerOnValidClient(Manager, est.i, validClient)
       IN  IF validClient = "raised"
           THEN /\ pc' = "crashed"
                /\ est' = IdleEst
                /\ call' = NoCall
                /\ UNCHANGED <<rawClients, clients, validAliases>>
           ELSE /\ rawClients' = m.rawClients
                /\ clients' = m.clients
                /\ validAliases' = m.validAliases
                /\ IF est.i < Len(rawClients)
                   THEN /\ est' = [i |-> est.i + 1, step |-> "cv"]
                        /\ call' = NewCall(est.i + 1)
                        /\ pc' = pc
                   ELSE /\ est' = IdleEst
                        /\ call' = NoCall
                        /\ pc' = "ready"
    /\ UNCHANGED <<hist, q, initConfigs, pureVars>>

\* A tool with an environment_alias parameter is called: the schema runs
\* envAliasValidate on it; only when it passes does the callback run, whose
\* capability client calls makeRequests(endpoint, params, environment_alias).
ToolCall ==
    /\ pc = "ready" /\ q.status = "idle"
    /\ \E sel \in Selectors :
          LET environment_alias == SelectorString(sel)
          IN  q' = IF envAliasValidate(environment_alias, validAliases)
                   THEN MakeRequestsBegin(sel, environment_alias, clients, rawClients,
                                          validAliases)
                   ELSE RejectedQuery(sel, environment_alias)
    /\ UNCHANGED <<rawClients, clients, validAliases, pc, est, call, hist, initConfigs, pureVars>>

\* The GET of the awaited client.makeRequest settles (resolves or rejects).
RequestResponds ==
    /\ pc = "ready" /\ q.status = "running"
    /\ \E ok \in BOOLEAN :
          q' = MakeRequestsResume(q, ok, clients, rawClients, validAliases)
    /\ UNCHANGED <<rawClients, clients, validAliases, pc, est, call, hist, initConfigs, pureVars>>

\* A getBaseUrl that moves the connection it found to the front of the list.
GetBaseUrl_MovesToFront ==
    /\ pc = "ready" /\ q.status = "idle"
    /\ \E alias \in SelectorTokens :
          /\ q' = [IdleQuery EXCEPT !.status = "answered", !.op = "getBaseUrl",
                                    !.environments = alias,
                                    !.value = getBaseUrl(clients, rawClients, alias)]
          /\ clients' =
                SelectSeq(clients, LAMBDA i : rawClients[i].alias = alias)
                \o SelectSeq(clients, LAMBDA i : rawClients[i].alias # alias)
    /\ UNCHANGED <<rawClients, validAliases, pc, est, call, hist, initConfigs, pureVars>>

\* A capability client asks getBaseUrl(alias) for the links of its answer.
GetBaseUrl ==
    /\ pc = "ready" /\ q.status = "idle"
    /\ \E alias \in SelectorTokens :
          q' = [IdleQuery EXCEPT !.status = "answered", !.op = "getBaseUrl",
                                 !.environments = alias,
                                 !.value = getBaseUrl(clients, rawClients, alias)]
    /\ UNCHANGED <<rawClients, clients, validAliases, pc, est, call, hist, initConfigs, pureVars>>

\* dynatrace_managed_check_for_configuration_errors: lists initErrors.
ConfigurationErrorsTool ==
    /\ pc = "ready" /\ q.status = "idle"
    /\ q' = [IdleQuery EXCEPT !.status = "answered",
                              !.op = "check_for_configuration_errors"]
    /\ UNCHANGED <<rawClients, clients, validAliases, pc, est, call, hist, initConfigs, pureVars>>

\* dynatrace_managed_get_environments_info is called.
EnvironmentsInfoTool ==
    /\ pc = "ready" /\ q.status = "idle"
    /\ q' = EnvironmentsInfoBegin(rawClients)
    /\ UNCHANGED <<rawClients, clients, validAliases, pc, est, call, hist, initConfigs, pureVars>>

\* The getClusterVersion GET awaited by the report settles.
EnvironmentsInfoResponds ==
    /\ pc = "ready" /\ q.status = "reporting"
    /\ \E f \in FetchOutcomes : q' = EnvironmentsInfoResume(q, WireBody(f), rawClients)
    /\ UNCHANGED <<rawClients, clients, validAliases, pc, est, call, hist, initConfigs, pureVars>>

\* The caller has taken the mapping, the value, the error or the rejection.
MakeRequestsDone ==
    /\ pc = "ready" /\ q.status \in {"returned", "raised", "rejected", "answered", "failed"}
    /\ q' = IdleQuery
    /\ UNCHANGED <<rawClients, clients, validAliases, pc, est, call, hist, initConfigs, pureVars>>

\* SIGINT or SIGTERM: shutdownHandler awaits its operations (telemetry.shutdown,
\* and in HTTP mode the close of the HTTP server), flushes the logger and calls
\* process.exit(0). Whatever was in flight ends with the process.
ShutdownHandler ==
    /\ pc = "ready"
    /\ \E mode \in {"stdio", "http"} :
          /\ pc' = "exited"
          /\ q' = [IdleQuery EXCEPT !.op = mode]
    /\ UNCHANGED <<rawClients, clients, validAliases, est, call, hist, initConfigs, pureVars>>

Next ==
    \/ MainConstructsManager
    \/ ManagerIsConfigured
    \/ ClusterVersionProbeResponds
    \/ MetricsProbeResponds
    \/ ClusterVersionFetchResponds
    \/ ManagerContinues
    \/ ToolCall
    \/ RequestResponds
    \/ GetBaseUrl
    \/ ConfigurationErrorsTool
    \/ EnvironmentsInfoTool
    \/ EnvironmentsInfoResponds
    \/ MakeRequestsDone
    \/ ShutdownHandler

Spec == Init /\ [][Next]_vars

(***************************************************************************)
(* validateEnvironments applied to every bounded list of descriptors.      *)
(***************************************************************************)
InitValidate ==
    /\ vin \in SeqsOf(Configurations, 0, MaxConfigs)
    /\ vout = [done |-> FALSE, valid_configs |-> <<>>, errors |-> <<>>]
    /\ VersionIdle
    /\ ProxyIdle
    /\ ClientIdle
    /\ ServerOff
    /\ RateIdle
    /\ LogIdle

CallValidateEnvironments ==
    /\ ~vout.done
    /\ LET r == validateEnvironments(vin)
       IN  vout' = [done |-> TRUE, valid_configs |-> r.valid_configs, errors |-> r.errors]
    /\ UNCHANGED <<vin, ver, verOut, proxyIn, proxyOut, conn, net, serverVars, rate, logs>>

NextValidate == CallValidateEnvironments

SpecValidate == InitValidate /\ [][NextValidate]_vars

(***************************************************************************)
(* validateMinimumVersion applied to every bounded pair of versions.       *)
(***************************************************************************)
InitVersion ==
    /\ ver \in [version : VersionTuples, minimum : VersionTuples]
    /\ verOut = [done |-> FALSE, version |-> <<>>, minimum |-> <<>>, result |-> FALSE]
    /\ ValidateIdle
    /\ ProxyIdle
    /\ ClientIdle
    /\ ServerOff
    /\ RateIdle
    /\ LogIdle

CallValidateMinimumVersion ==
    /\ ~verOut.done
    /\ LET version == FormatVersion(ver.version)
           minimum == FormatVersion(ver.minimum)
       IN  verOut' = [done |-> TRUE, version |-> version, minimum |-> minimum,
                      result |-> validateMinimumVersion(version, minimum)]
    /\ UNCHANGED <<vin, vout, ver, proxyIn, proxyOut, conn, net, serverVars, rate, logs>>

NextVersion == CallValidateMinimumVersion

SpecVersion == InitVersion /\ [][NextVersion]_vars

(***************************************************************************)
(* setAxiosProxy applied to every pair of proxy settings.                  *)
(***************************************************************************)
InitProxy ==
    /\ proxyIn \in [httpProxy : ProxySettings, httpsProxy : ProxySettings]
    /\ proxyOut = [done |-> FALSE, result |-> ProxyUndefined]
    /\ ValidateIdle
    /\ VersionIdle
    /\ ClientIdle
    /\ ServerOff
    /\ RateIdle
    /\ LogIdle

CallSetAxiosProxy ==
    /\ ~proxyOut.done
    /\ proxyOut' = [done |-> TRUE,
                    result |-> setAxiosProxy(ProxyText(proxyIn.httpProxy),
                                             ProxyText(proxyIn.httpsProxy))]
    /\ UNCHANGED <<proxyIn, conn, net, vin, vout, ver, verOut, serverVars, rate, logs>>

NextProxy == CallSetAxiosProxy

SpecProxy == InitProxy /\ [][NextProxy]_vars

(***************************************************************************)
(* One ManagedAuthClient on its own, as the integration test uses it: its   *)
(* requests in any order, split at their awaits, and cleanup() at any time. *)
(***************************************************************************)
ClientOps == {"makeRequest", "getClusterVersion", "validateConnection", "isConfigured"}
FirstStep(op) == IF op \in {"makeRequest", "getClusterVersion"} THEN "get" ELSE "cv"

\* The operation `op` of the client ends with `outcome`; isConfigured leaves
\* validationError as given.
ClientFinishes(s, op, outcome, validationError) ==
    [conn |-> [s.conn EXCEPT !.validationError = validationError],
     net |-> [s.net EXCEPT !.pending = NoPending,
                           !.last = [op |-> op, outcome |-> outcome]]]

\* `this.httpClient.get(...)` inside `op`. On a null reference it is a
\* TypeError before anything is sent: makeRequest and getClusterVersion reject
\* with it, both try blocks of validateConnection catch it (false), and so does
\* the try block of isConfigured (false). Otherwise the GET goes out.
ClientGets(s, op, step) ==
    IF s.conn.httpClient = "null"
    THEN IF op \in {"makeRequest", "getClusterVersion"}
         THEN ClientFinishes(s, op, "TypeError", s.conn.validationError)
         ELSE IF op = "validateConnection"
         THEN ClientFinishes(s, op, "false", s.conn.validationError)
         ELSE IF step = "fetch"
         THEN ClientFinishes(s, op, "false",
                  FailedToConnectMessage(s.conn.alias,
                      "Cannot read properties of null (reading 'get')"))
         ELSE ClientFinishes(s, op, "false",
                  isConfiguredOnConnected(s.conn, "false").validationError)
    ELSE [conn |-> s.conn,
          net |-> [s.net EXCEPT !.sent = @ + 1,
                                !.lateSent = @ \/ s.net.cleanups > 0,
                                !.pending = [op |-> op, step |-> step]]]

\* validateConnection gave isConnected ("true"/"false") inside `op`.
ClientConnected(s, op, isConnected) ==
    IF op = "validateConnection"
    THEN ClientFinishes(s, op, isConnected, s.conn.validationError)
    ELSE LET r == isConfiguredOnConnected(s.conn, isConnected)
         IN  IF r.ret = "fetch" THEN ClientGets(s, op, "fetch")
             ELSE ClientFinishes(s, op, r.ret, r.validationError)

\* The GET in flight settles with outcome o (f when it is the version fetch of
\* isConfigured).
ClientOnResponse(s, o, f) ==
    LET op == s.net.pending.op
        step == s.net.pending.step
    IN  IF step = "get"
        THEN ClientFinishes(s, op, IF o = "error" THEN "rejected" ELSE "resolved",
                            s.conn.validationError)
        ELSE IF step = "cv"
        THEN IF validateConnectionFirst(o) = "fallback"
             THEN ClientGets(s, op, "metrics")
             ELSE ClientConnected(s, op, validateConnectionFirst(o))
        ELSE IF step = "metrics"
        THEN ClientConnected(s, op, validateConnectionFallback(o))
        ELSE LET r == isConfiguredOnFetch(s.conn, WireBody(f), MINIMUM_VERSION)
             IN  ClientFinishes(s, op, r.ret, r.validationError)

InitClient ==
    /\ conn = NewManagedAuthClient([alias |-> AliasName(1),
                                    dashboardBaseUrl |-> DashboardUrl(1),
                                    httpProxy |-> <<>>, httpsProxy |-> <<>>])
    /\ net = NoNet
    /\ ValidateIdle
    /\ VersionIdle
    /\ ProxyIdle
    /\ ServerOff
    /\ RateIdle
    /\ LogIdle

\* A caller invokes one of the client's request methods.
ClientCalls ==
    /\ net.pending = NoPending
    /\ net.sent < MaxSent
    /\ \E op \in ClientOps :
          LET s == ClientGets([conn |-> conn, net |-> net], op, FirstStep(op))
          IN  conn' = s.conn /\ net' = s.net
    /\ UNCHANGED <<vin, vout, ver, verOut, proxyIn, proxyOut, serverVars, rate, logs>>

\* The cluster answers the GET in flight, or the GET fails.
ClientGetSettles ==
    /\ net.pending # NoPending
    /\ \E o \in HttpOutcomes, f \in FetchOutcomes :
          LET s == ClientOnResponse([conn |-> conn, net |-> net], o, f)
          IN  conn' = s.conn /\ net' = s.net
    /\ UNCHANGED <<vin, vout, ver, verOut, proxyIn, proxyOut, serverVars, rate, logs>>

\* client.cleanup(), whatever is in flight.
ClientCleanup ==
    /\ net.cleanups < MaxCleanups
    /\ conn' = cleanup(conn)
    /\ net' = [net EXCEPT !.cleanups = @ + 1]
    /\ UNCHANGED <<vin, vout, ver, verOut, proxyIn, proxyOut, serverVars, rate, logs>>

NextClient ==
    \/ ClientCalls
    \/ ClientGetSettles
    \/ ClientCleanup

SpecClient == InitClient /\ [][NextClient]_vars

(***************************************************************************)
(* Properties.                                                             *)
(***************************************************************************)
\* A version tuple's i-th component, 0 past its end.
Component(t, i) == IF i <= Len(t) THEN t[i] ELSE 0

\* a >= b for version tuples: equal after zero padding, or greater at the first
\* component where they differ.
TupleGE(a, b) ==
    LET n == Max(Len(a), Len(b))
    IN  \/ \A i \in 1..n : Component(a, i) = Component(b, i)
        \/ \E i \in 1..n : /\ Component(a, i) > Component(b, i)
                           /\ \A j \in 1..(i - 1) : Component(a, j) = Component(b, j)

MinimumVersionTuple == <<1, 328, 0>>

UsableAliases == [k \in 1..Len(clients) |-> rawClients[clients[k]].alias]

SomeRequestFailed == \E k \in 1..Len(q.issued) : ~q.issued[k].ok

\* C1: fan-out is all-or-nothing: once the request of a selected connection has
\* raised, the makeRequests call has raised and returns no mapping, whatever
\* responses it had already obtained.
C1_FanOutAllOrNothing ==
    SomeRequestFailed =>
        /\ q.status = "raised"
        /\ q.responses = <<>>
        /\ \E k \in 1..Len(q.issued) : ~q.issued[k].ok /\ q.error = q.issued[k].client

C1_Witness ==
    /\ q.status = "raised"
    /\ Len(q.issued) = 2
    /\ q.issued[1].ok
    /\ ~q.issued[2].ok

\* C2: with distinct usable aliases and a list selector of usable aliases, a
\* successful makeRequests returns exactly the selected aliases as keys, in the
\* Manager's order of usable connections.
C2_KeysInManagerOrder ==
    (/\ q.status = "returned"
     /\ q.selector.kind = "list"
     /\ \A j, k \in 1..Len(clients) : UsableAliases[j] = UsableAliases[k] => j = k
     /\ Range(q.selector.tokens) \subseteq Range(UsableAliases))
    => MapKeys(q.responses) =
           SelectSeq(UsableAliases, LAMBDA a : a \in Range(q.selector.tokens))

C2_Witness ==
    /\ q.status = "returned"
    /\ UsableAliases = <<AliasName(1), AliasName(2), AliasName(3)>>
    /\ q.selector.kind = "list"
    /\ q.selector.tokens = <<AliasName(3), AliasName(1)>>
    /\ MapKeys(q.responses) = <<AliasName(1), AliasName(3)>>

\* C3: after the startup pass the usable list is exactly the constructed
\* connections whose own isConfigured returned true, in construction order, and
\* every connection was probed whatever the others returned.
C3_StartupIsolation ==
    pc = "ready" =>
        /\ \A i \in 1..Len(rawClients) : hist[i].ret \in {"true", "false"}
        /\ clients = SelectSeq([i \in 1..Len(rawClients) |-> i],
                               LAMBDA i : hist[i].ret = "true")

C3_Witness ==
    /\ pc = "ready"
    /\ Len(rawClients) = 3
    /\ hist[2].connected = "false"
    /\ clients = <<1, 3>>
    /\ UsableAliases = <<AliasName(1), AliasName(3)>>

\* C4: every usable connection had a successful connectivity probe and reported
\* a version >= MINIMUM_VERSION, and validAliases lists exactly the usable ones.
C4_UsableMeetsMinimumVersion ==
    /\ \A k \in 1..Len(clients) :
          /\ hist[clients[k]].connected = "true"
          /\ hist[clients[k]].reported # <<>>
          /\ TupleGE(hist[clients[k]].reported, MinimumVersionTuple)
    /\ pc \in {"constructed", "establishing", "ready"} =>
          validAliases = <<ALL_ENVIRONMENTS>> \o UsableAliases

C4_Witness ==
    /\ pc = "ready"
    /\ Len(clients) >= 1
    /\ \E i \in 1..Len(rawClients) :
          /\ hist[i].connected = "true"
          /\ hist[i].reported = <<1, 319, 0>>
          /\ ~Includes(clients, i)
          /\ ~Includes(validAliases, rawClients[i].alias)

\* C5: ManagedAuthClient.isConfigured never raises; it returns true only when
\* the probe and the version check both succeeded, and when it returns false
\* the connection's validationError is not empty.
C5_EstablishNeverRaises ==
    /\ pc # "crashed"
    /\ \A i \in 1..Len(rawClients) :
          /\ hist[i].ret \in {None, "true", "false"}
          /\ hist[i].ret = "true" =>
                /\ hist[i].connected = "true"
                /\ hist[i].reported # <<>>
                /\ TupleGE(hist[i].reported, MinimumVersionTuple)
          /\ hist[i].ret = "false" => rawClients[i].validationError # <<>>

C5_Witness ==
    /\ est.step = "returned"
    /\ call.fetch = "error"
    /\ hist[est.i].ret = "false"
    /\ hist[est.i].connected = "true"

\* C6: two-tier probe: any outcome of the cluster-version call other than HTTP
\* 200 leads to the fallback call; the probe succeeds iff one of the two calls
\* answered 200; the fallback is never issued after a 200.
C6_TwoTierProbe ==
    /\ (call.cv \notin {None, "200"}) => (est.step = "metrics" \/ call.metrics # None)
    /\ (call.client # 0 /\ hist[call.client].connected # None) =>
          (hist[call.client].connected = "true" <=> (call.cv = "200" \/ call.metrics = "200"))
    /\ call.cv = "200" => call.metrics = None

MissingKeys(c) == {k \in 1..Len(requiredKeys) : c[requiredKeys[k]] = <<>>}

HasSemicolon(alias) == SEMI \in Range(alias)

Count(seq, P(_)) == Cardinality({k \in 1..Len(seq) : P(seq[k])})

\* C7: a descriptor missing k >= 1 required fields is excluded from
\* valid_configs and gets exactly k missing-key diagnostics, one per missing
\* field, naming the original field name, the index and the alias (or N/A).
C7_OneDiagnosticPerMissingField ==
    vout.done =>
        \A i \in 1..Len(vin) :
            MissingKeys(vin[i]) # {} =>
                /\ vin[i] \notin Range(vout.valid_configs)
                /\ Count(vout.errors,
                         LAMBDA m : m.kind = "missing_key" /\ m.index = i - 1)
                       = Cardinality(MissingKeys(vin[i]))
                /\ \A k \in MissingKeys(vin[i]) :
                       Count(vout.errors,
                             LAMBDA m : m = [kind |-> "missing_key",
                                             key |-> originalKeys[requiredKeys[k]],
                                             index |-> i - 1,
                                             alias |-> IF vin[i].alias = <<>> THEN NA
                                                       ELSE vin[i].alias]) = 1

\* C8: a descriptor whose alias contains ';' is excluded from valid_configs and
\* gets the 'Invalid alias found' diagnostic exactly once, whether or not other
\* required fields are missing.
C8_SemicolonAliasRejected ==
    vout.done =>
        \A i \in 1..Len(vin) :
            HasSemicolon(vin[i].alias) =>
                /\ vin[i] \notin Range(vout.valid_configs)
                /\ Count(vout.errors,
                         LAMBDA m : m.kind = "invalid_alias" /\ m.alias = vin[i].alias)
                       = Cardinality({j \in 1..Len(vin) : vin[j].alias = vin[i].alias})

C8_Witness ==
    /\ vout.done
    /\ \E i \in 1..Len(vin) :
          /\ HasSemicolon(vin[i].alias)
          /\ vin[i].apiToken = <<>>
          /\ \E k \in 1..Len(vout.errors) :
                vout.errors[k].kind = "invalid_alias" /\ vout.errors[k].alias = vin[i].alias

IsValidDescriptor(c) ==
    /\ c.apiUrl # <<>>
    /\ c.environmentId # <<>>
    /\ c.alias # <<>>
    /\ c.apiToken # <<>>
    /\ ~HasSemicolon(c.alias)

\* The diagnostics of errors that descriptor i of the input accounts for.
MessagesOf(i) ==
    {k \in 1..Len(vout.errors) :
        \/ vout.errors[k].kind = "missing_key" /\ vout.errors[k].index = i - 1
        \/ vout.errors[k].kind = "invalid_alias" /\ vout.errors[k].alias = vin[i].alias}

\* C9: validateEnvironments partitions its input: valid_configs is, in input
\* order and unchanged, the descriptors with four non-empty required fields and
\* no ';' in the alias; every other descriptor has at least one message in
\* errors and a valid one has none.
C9_ValidatePartitions ==
    vout.done =>
        /\ vout.valid_configs = SelectSeq(vin, IsValidDescriptor)
        /\ \A i \in 1..Len(vin) :
              IF IsValidDescriptor(vin[i]) THEN MessagesOf(i) = {} ELSE MessagesOf(i) # {}
        /\ \A k \in 1..Len(vout.errors) : \E i \in 1..Len(vin) : k \in MessagesOf(i)

C9_Witness ==
    /\ vout.done
    /\ Len(vin) = 2
    /\ ~IsValidDescriptor(vin[1])
    /\ IsValidDescriptor(vin[2])
    /\ vout.valid_configs = <<vin[2]>>
    /\ vout.errors # <<>>

\* C10: validateMinimumVersion is current >= minimum on the versions read as
\* integer tuples with missing trailing components taken as 0.
C10_VersionCompareIsLexicographic ==
    verOut.done => (verOut.result <=> TupleGE(ver.version, ver.minimum))

C10_Witness ==
    /\ verOut.done
    /\ ver.version = <<1, 328>>
    /\ ver.minimum = <<1, 328, 0>>
    /\ verOut.result


\* The proxy setting setAxiosProxy parses when exactly one is set.
TheProxySetting == IF proxyIn.httpsProxy.kind # "unset" THEN proxyIn.httpsProxy ELSE proxyIn.httpProxy
ExactlyOneProxySet == (proxyIn.httpProxy.kind = "unset") # (proxyIn.httpsProxy.kind = "unset")

\* A well-formed proxy URL: it parses and its user-info percent-decodes.
WellFormedProxy(x) ==
    /\ x.kind = "url"
    /\ decodeURIComponent(x.credentials.username).ok
    /\ decodeURIComponent(x.credentials.password).ok

\* C17: setAxiosProxy returns undefined, without raising, when both or neither
\* proxy URL is set; when exactly one is set to a well-formed URL it returns the
\* URL's host and protocol, its port when present and otherwise the default
\* port of the URL's scheme (80 for http, 443 for https), and the
\* percent-decoded username and password when the URL has a username, no auth
\* when it has no user-info.
C17_ProxyParsing ==
    proxyOut.done =>
        LET x == TheProxySetting
            r == proxyOut.result
        IN  /\ ~ExactlyOneProxySet => r = ProxyUndefined
            /\ ExactlyOneProxySet /\ WellFormedProxy(x) =>
                  /\ r.kind = "config"
                  /\ r.host = ProxyHost
                  /\ r.protocol = x.scheme \o <<":">>
                  /\ r.port = IF x.port # <<>> THEN ToNumber(x.port)
                              ELSE DefaultPort(x.scheme)
                  /\ x.credentials.username # <<>> =>
                        r.auth = [present |-> TRUE,
                                  username |-> decodeURIComponent(x.credentials.username).value,
                                  password |-> decodeURIComponent(x.credentials.password).value]
                  /\ ~x.credentials.present => r.auth = NoAuth


\* C19: cleanup is idempotent and final. Once it has been called the reference
\* to the axios instance is dropped, the instance has no interceptors and a
\* timeout of 1, and no GET of this connection (makeRequest, validateConnection,
\* getClusterVersion, isConfigured) reaches the cluster any more; a second or
\* later call changes nothing of the connection and sends nothing.
C19_CleanupIdempotentAndFinal ==
    /\ [](net.cleanups > 0 =>
            /\ conn.httpClient = "null"
            /\ conn.axios = [timeout |-> 1, requestHandlers |-> 0, responseHandlers |-> 0]
            /\ ~net.lateSent)
    /\ [][net.cleanups > 0 /\ net'.cleanups = net.cleanups + 1 =>
            conn' = conn /\ net'.sent = net.sent /\ net'.pending = net.pending]_vars

C19_Witness ==
    /\ net.cleanups = 2
    /\ net.sent >= 1
    /\ net.last = [op |-> "makeRequest", outcome |-> "TypeError"]


\* A Manager exists: its constructor has returned.
ManagerExists == pc \in {"constructed", "establishing", "ready", "crashed", "exited"}

\* C11: ALL_ENVIRONMENTS is in validAliases in every state of a Manager: after
\* construction, during and after the startup pass, with no usable
\* environment, and after queries.
C11_SentinelAlwaysRegistered ==
    ManagerExists => Includes(validAliases, ALL_ENVIRONMENTS)

C11_Witness ==
    /\ pc = "ready"
    /\ clients = <<>>
    /\ validAliases = <<ALL_ENVIRONMENTS>>
    /\ q.status = "returned"
    /\ q.selector.kind = "all"

\* C12: makeRequests with ALL_ENVIRONMENTS issues the request to every usable
\* connection and, when it returns, returns one entry per usable environment
\* (none when no environment is usable).
C12_AllSelectorCoversUsable ==
    (/\ q.status = "returned"
     /\ q.selector.kind = "all")
    => /\ [k \in 1..Len(q.issued) |-> q.issued[k].client] = clients
       /\ Len(q.responses) = Len(clients)

\* The tokens of the selector of the tool call in q are all registered.
SelectorRegistered ==
    \/ q.selector.kind = "all"
    \/ \A t \in Range(q.selector.tokens) : Includes(validAliases, t)

\* C13: the selector of a tool call is validated before dispatch: it is
\* accepted exactly when it is ALL_ENVIRONMENTS or each of its tokens is in
\* validAliases, and for a rejected call makeRequests is not invoked (no
\* request is issued, nothing is returned).
C13_ValidationPrecedesDispatch ==
    q.op = "makeRequests" =>
        /\ q.status = "rejected" <=> ~SelectorRegistered
        /\ q.status = "rejected" =>
              q.issued = <<>> /\ q.responses = <<>> /\ q.at = 0

C13_Witness ==
    /\ q.status = "rejected"
    /\ Len(q.selector.tokens) = 2
    /\ Includes(UsableAliases, q.selector.tokens[1])
    /\ \E i \in 1..Len(rawClients) :
          /\ rawClients[i].alias = q.selector.tokens[2]
          /\ ~rawClients[i].isValid
          /\ rawClients[i].validationError # <<>>

\* The fields of connection i that no step may change.
FixedFields(c) == [alias |-> c.alias, dashboardBaseUrl |-> c.dashboardBaseUrl, proxy |-> c.proxy]

\* Connection i's own isConfigured call is running (it has not returned yet).
InOwnProbe(i) ==
    pc = "establishing" /\ est.i = i /\ est.step \in {"cv", "metrics", "fetch"}

\* C14 as stated: after construction only isValid and validationError of a
\* connection change, and every such write happens inside that connection's
\* own isConfigured call (by the connection, not by the Manager, another
\* connection, a query or a report).
C14_WrittenByConnectionOnly ==
    [][\A i \in 1..Len(rawClients) :
          /\ Len(rawClients') = Len(rawClients)
          /\ FixedFields(rawClients'[i]) = FixedFields(rawClients[i])
          /\ (\/ rawClients'[i].isValid # rawClients[i].isValid
              \/ rawClients'[i].validationError # rawClients[i].validationError)
             => InOwnProbe(i)]_vars

\* C14, amended: after construction only isValid and validationError of a
\* connection change, each at most once and only in that connection's own turn
\* of the startup pass: validationError is written by the connection's
\* isConfigured when it returns false, isValid is set by the Manager's loop
\* right after that connection's isConfigured returned true. No other
\* connection's turn, query or report writes them.
C14_WrittenOnceInOwnTurn ==
    [][\A i \in 1..Len(rawClients) :
          /\ Len(rawClients') = Len(rawClients)
          /\ FixedFields(rawClients'[i]) = FixedFields(rawClients[i])
          /\ rawClients'[i].validationError # rawClients[i].validationError =>
                /\ InOwnProbe(i)
                /\ rawClients[i].validationError = <<>>
                /\ rawClients'[i].isValid = rawClients[i].isValid
                /\ est'.step = "returned" /\ hist'[i].ret = "false"
          /\ rawClients'[i].isValid # rawClients[i].isValid =>
                /\ pc = "establishing" /\ est.i = i /\ est.step = "returned"
                /\ hist[i].ret = "true"
                /\ ~rawClients[i].isValid
                /\ rawClients'[i].validationError = rawClients[i].validationError]_vars

C14_Witness ==
    /\ pc = "ready"
    /\ q.op = "get_environments_info" /\ q.status = "answered"
    /\ Len(rawClients) = 3
    /\ rawClients[1].isValid /\ rawClients[1].validationError = <<>>
    /\ ~rawClients[2].isValid /\ rawClients[2].validationError # <<>>
    /\ rawClients[3].isValid

\* C15: once the startup pass has completed, validAliases, clients and
\* rawClients never change: tool calls (accepted or rejected), makeRequests,
\* getBaseUrl and the two status tools leave them as they are.
C15_RegistryReadOnlyAfterStartup ==
    [][pc = "ready" => UNCHANGED <<validAliases, clients, rawClients>>]_vars

C15_Witness ==
    /\ pc = "ready"
    /\ q.op = "getBaseUrl" /\ q.status = "answered"
    /\ q.value = DashboardUrl(2)
    /\ Len(clients) = 2
    /\ rawClients[clients[1]].alias # q.environments

\* C16: when the Manager's constructor returns, rawClients holds one connection
\* per descriptor, in descriptor order, each with isValid false and an empty
\* validationError; clients is empty, validAliases is [ALL_ENVIRONMENTS], and no
\* request has been issued.
C16_ConstructionBuildsWithoutProbing ==
    pc = "constructed" =>
        /\ Len(rawClients) = Len(initConfigs)
        /\ \A i \in 1..Len(rawClients) :
              /\ rawClients[i].alias = initConfigs[i].alias
              /\ rawClients[i].dashboardBaseUrl = initConfigs[i].dashboardUrl
              /\ ~rawClients[i].isValid
              /\ rawClients[i].validationError = <<>>
              /\ hist[i] = NoHist
        /\ clients = <<>>
        /\ validAliases = <<ALL_ENVIRONMENTS>>
        /\ call = NoCall /\ est = IdleEst /\ q = IdleQuery

C16_Witness ==
    /\ pc = "constructed"
    /\ Len(rawClients) = 3
    /\ rawClients[1].alias = rawClients[3].alias
    /\ rawClients[1].dashboardBaseUrl # rawClients[3].dashboardBaseUrl

\* C18: a malformed proxy URL aborts the construction of that one connection
\* only: once main() has run the Manager's constructor, every descriptor whose
\* proxy is not malformed has its connection in rawClients.
C18_MalformedProxyAbortsOneConnection ==
    pc # "start" =>
        \A i \in 1..Len(initConfigs) :
            initConfigs[i].httpProxy # MalformedProxy =>
                \E j \in 1..Len(rawClients) :
                    /\ rawClients[j].alias = initConfigs[i].alias
                    /\ rawClients[j].dashboardBaseUrl = initConfigs[i].dashboardUrl

\* C20: when the shutdown handler has run and the process exits, the channel of
\* every constructed connection has been released.
C20_ShutdownReleasesChannels ==
    pc = "exited" =>
        \A i \in 1..Len(rawClients) :
            rawClients[i].httpClient = "null" /\ rawClients[i].axios.timeout = 1


\* C21: with no usable environment after the startup pass the server does not
\* go on to serve tool calls.
C21_ZeroUsableIsFatal ==
    (pc = "ready" /\ clients = <<>>) => q.status = "idle"

\* The connections a request of the makeRequests call in q went to, in order.
IssuedClients == [k \in 1..Len(q.issued) |-> q.issued[k].client]

\* Connection i is selected by the selector of the call in q.
IsSelected(i) ==
    \/ q.selector.kind = "all"
    \/ rawClients[i].alias \in Range(q.selector.tokens)

\* C22: no retries. In one makeRequests call every connection gets at most one
\* GET, only usable and selected connections get one, the GET in flight goes to
\* a connection that was not asked before, and a GET that failed is the last
\* one: the call has raised with the error of that connection.
C22_NoRetries ==
    q.op = "makeRequests" =>
        /\ \A j, k \in 1..Len(q.issued) : IssuedClients[j] = IssuedClients[k] => j = k
        /\ \A k \in 1..Len(q.issued) :
              /\ Includes(clients, IssuedClients[k])
              /\ IsSelected(IssuedClients[k])
              /\ ~q.issued[k].ok =>
                    /\ k = Len(q.issued)
                    /\ q.status = "raised"
                    /\ q.error = IssuedClients[k]
        /\ q.status = "running" =>
              /\ IsSelected(clients[q.at])
              /\ ~Includes(IssuedClients, clients[q.at])

C22_Witness ==
    /\ q.status = "raised"
    /\ Len(clients) = 3
    /\ q.selector.kind = "list"
    /\ Len(q.issued) = 1
    /\ q.error = clients[1]
    /\ IsSelected(clients[3])

\* C24: aliases need not be unique and colliding aliases both match: a
\* makeRequests that returns for a list selector has asked every usable
\* connection whose alias the selector names, also those that share an alias.
C24_CollidingAliasesBothMatch ==
    (q.status = "returned" /\ q.selector.kind = "list") =>
        \A k \in 1..Len(clients) :
            IsSelected(clients[k]) =>
                \E j \in 1..Len(q.issued) :
                    IssuedClients[j] = clients[k] /\ q.issued[j].ok

C24_Witness ==
    /\ q.status = "returned"
    /\ q.selector = [kind |-> "list", tokens |-> <<AliasName(1)>>]
    /\ Len(clients) = 2
    /\ rawClients[clients[1]].alias = AliasName(1)
    /\ rawClients[clients[2]].alias = AliasName(1)
    /\ IssuedClients = clients

\* C28: the metrics fallback alone never makes an environment usable. When a
\* connection's isConfigured has returned true, the GET of getClusterVersion
\* gave a version during that call; when the cluster-version endpoint failed in
\* the probe and in the fetch, isConfigured returned false with a
\* validationError, whatever /api/v2/metrics answered; isConfigured never
\* raises, and a connection marked valid reported a version.
C28_MetricsFallbackNeverSuffices ==
    /\ (pc = "establishing" /\ est.step = "returned") =>
          /\ hist[est.i].ret = "true" => call.fetch = "version"
          /\ (call.cv = "error" /\ call.fetch \in {None, "error"}) =>
                /\ hist[est.i].ret = "false"
                /\ rawClients[est.i].validationError # <<>>
                /\ ~rawClients[est.i].isValid
    /\ \A i \in 1..Len(rawClients) :
          /\ hist[i].ret # "raised"
          /\ rawClients[i].isValid => hist[i].reported # <<>>

C28_Witness ==
    /\ pc = "establishing" /\ est.step = "returned"
    /\ call.cv = "error" /\ call.metrics = "200" /\ call.fetch = "error"
    /\ hist[est.i].ret = "false"
    /\ hist[est.i].connected = "true"

\* The position in clients of a usable connection.
PositionInClients(i) == CHOOSE k \in 1..Len(clients) : clients[k] = i

\* C29: makeRequests asks the selected connections one at a time in clients
\* order: the requests made so far went to increasing positions of clients;
\* while a request is in flight every earlier one has succeeded, every selected
\* connection before it was asked and none after it; once the call has
\* returned, raised or been rejected nothing is in flight, and nothing was
\* issued after a failed request.
C29_StrictlySequential ==
    q.op = "makeRequests" =>
        /\ \A j, k \in 1..Len(q.issued) :
              j < k => PositionInClients(IssuedClients[j]) < PositionInClients(IssuedClients[k])
        /\ q.status = "running" =>
              /\ \A k \in 1..Len(q.issued) :
                    q.issued[k].ok /\ PositionInClients(IssuedClients[k]) < q.at
              /\ \A k \in 1..(q.at - 1) :
                    IsSelected(clients[k]) => Includes(IssuedClients, clients[k])
        /\ q.status # "running" => q.at = 0
        /\ \A k \in 1..Len(q.issued) : ~q.issued[k].ok => k = Len(q.issued)

C29_Witness ==
    /\ q.status = "running"
    /\ q.selector.kind = "all"
    /\ Len(clients) = 3
    /\ q.at = 3
    /\ Len(q.issued) = 2

\* C30: no response is lost: a makeRequests that returns has one entry per
\* connection it asked, each entry holds the response of a connection with the
\* key's alias, and getBaseUrl of the key is the dashboard URL of that
\* connection.
C30_NoResponseLost ==
    q.status = "returned" =>
        /\ Len(q.responses) = Len(q.issued)
        /\ \A k \in 1..Len(q.responses) :
              /\ rawClients[q.responses[k].value].alias = q.responses[k].key
              /\ getBaseUrl(clients, rawClients, q.responses[k].key) =
                    rawClients[q.responses[k].value].dashboardBaseUrl


\* The environments the token t of a selector names.
NamedBy(t) == IF t = ALL_ENVIRONMENTS THEN Range(UsableAliases) ELSE {t}

\* C26: validation and dispatch agree: a makeRequests that returns for an
\* accepted selector holds an entry for every environment the selector names,
\* where the token ALL_ENVIRONMENTS names every usable environment, alone or
\* as one token of a list.
C26_ValidationAndDispatchAgree ==
    (q.status = "returned" /\ envAliasValidate(q.environments, validAliases)) =>
        \A k \in 1..Len(Split(q.environments, SEMI)) :
            NamedBy(Split(q.environments, SEMI)[k]) \subseteq Range(MapKeys(q.responses))


\* ManagedAuthClientManager.isConfigured is public and keeps no record of having
\* run: a further call walks rawClients again from the first connection. The
\* call is made between queries, while fewer than MaxRegistered connections are
\* registered.
ManagerIsConfiguredAgain ==
    /\ pc = "ready" /\ q.status = "idle"
    /\ Len(clients) < MaxRegistered
    /\ pc' = "establishing"
    /\ est' = [i |-> 1, step |-> "cv"]
    /\ call' = NewCall(1)
    /\ UNCHANGED <<rawClients, clients, validAliases, hist, q, initConfigs, pureVars>>

NextRegistry ==
    \/ Next
    \/ ManagerIsConfiguredAgain

\* The Manager under all of its operations, isConfigured called any number of
\* times.
SpecRegistry == Init /\ [][NextRegistry]_vars

\* The registry invariant: clients is a duplicate-free subsequence of
\* rawClients, holds exactly the connections whose isValid is true, a valid
\* connection has no validationError, and validAliases is the sentinel followed
\* by the aliases of clients in order.
RegistryConsistent ==
    /\ \A j, k \in 1..Len(clients) : j < k => clients[j] < clients[k]
    /\ \A i \in 1..Len(rawClients) : Includes(clients, i) <=> rawClients[i].isValid
    /\ \A i \in 1..Len(rawClients) :
          rawClients[i].isValid => rawClients[i].validationError = <<>>
    /\ validAliases = <<ALL_ENVIRONMENTS>> \o UsableAliases

\* C27: the registry invariant holds in every state the Manager reaches through
\* its constructor, isConfigured called one or more times, makeRequests and
\* getBaseUrl.
C27_RegistryConsistency == ManagerExists => RegistryConsistent


(***************************************************************************)
(* The tool wrapper's rate limiter called at the times of a clock that     *)
(* does not run backwards.                                                 *)
(***************************************************************************)
InitRate ==
    /\ rate = NoRate
    /\ ValidateIdle
    /\ VersionIdle
    /\ ProxyIdle
    /\ ClientIdle
    /\ ServerOff
    /\ LogIdle

\* A tool is called d milliseconds after the previous call: wrappedCb reads
\* Date.now(), prunes toolCallTimestamps and returns the rate-limit result or
\* records the call and starts the tool's callback.
ToolWrapperCalled ==
    /\ Len(rate.calls) < MaxCalls
    /\ \E d \in Delays :
          LET r == wrappedCb(rate.toolCallTimestamps, rate.now + d)
          IN  rate' = [now |-> rate.now + d,
                       toolCallTimestamps |-> r.toolCallTimestamps,
                       calls |-> Append(rate.calls,
                                        [at |-> rate.now + d, limited |-> r.limited,
                                         started |-> r.started])]
    /\ UNCHANGED <<vin, vout, ver, verOut, proxyIn, proxyOut, conn, net, serverVars, logs>>

NextRate == ToolWrapperCalled

SpecRate == InitRate /\ [][NextRate]_vars

\* The calls before call k whose callback started within the 20 s before it.
StartedBefore(k) ==
    {j \in 1..(k - 1) :
        rate.calls[j].started /\ rate.calls[j].at > rate.calls[k].at - RateWindow}

\* The callbacks started in the half-open 20 s window that begins at call k.
StartedFrom(k) ==
    {j \in 1..Len(rate.calls) :
        /\ rate.calls[j].started
        /\ rate.calls[k].at <= rate.calls[j].at
        /\ rate.calls[j].at < rate.calls[k].at + RateWindow}

\* C25: the rate limit of the tool wrapper. A call starts its callback exactly
\* when fewer than 5 accepted calls lie in the 20000 ms before it; a call that
\* does not start the callback is the one that got the rate-limit result, and it
\* is not recorded: toolCallTimestamps holds the accepted calls of the last
\* 20 s only. So at most 5 callbacks start in any half-open window of 20 s.
C25_RateLimit ==
    /\ \A k \in 1..Len(rate.calls) :
          /\ rate.calls[k].started <=> Cardinality(StartedBefore(k)) < RateLimit
          /\ rate.calls[k].limited <=> ~rate.calls[k].started
          /\ Cardinality(StartedFrom(k)) <= RateLimit
    /\ Len(rate.calls) > 0 =>
          rate.toolCallTimestamps =
              [j \in 1..Len(SelectSeq(rate.calls,
                                      LAMBDA c : c.started /\ c.at > rate.now - RateWindow))
                  |-> SelectSeq(rate.calls,
                                LAMBDA c : c.started /\ c.at > rate.now - RateWindow)[j].at]

\* Five calls accepted at one instant, a sixth rejected less than 20 s later,
\* a seventh accepted exactly 20 s after the five.
C25_Witness ==
    /\ Len(rate.calls) = 7
    /\ \A k \in 1..5 : rate.calls[k].started /\ rate.calls[k].at = rate.calls[1].at
    /\ rate.calls[6].limited
    /\ rate.calls[7].started
    /\ rate.calls[7].at = rate.calls[1].at + RateWindow

(***************************************************************************)
(* The log written while a Manager's connections are validated and         *)
(* queried, recorded for each value of the apiToken under the same remote  *)
(* behaviour.                                                              *)
(***************************************************************************)
InitLog ==
    /\ \E n \in 1..MaxLogEnvs :
          logs = [i |-> 1, step |-> "start", envs |-> n, queries |-> 0,
                  written |-> [t \in ApiTokens |-> <<>>]]
    /\ ValidateIdle
    /\ VersionIdle
    /\ ProxyIdle
    /\ ClientIdle
    /\ ServerOff
    /\ RateIdle

\* isConfigured of the connection returned: the Manager's loop goes on to the
\* next connection or ends.
LogAfterReturn(l) ==
    IF l.i < l.envs
    THEN [l EXCEPT !.i = l.i + 1, !.step = "start"]
    ELSE [l EXCEPT !.i = 0, !.step = "ready"]

\* The position after validateConnection returned isConnected.
LogAfterConnected(l, isConnected) ==
    IF isConnected = "true" THEN [l EXCEPT !.step = "fetch"] ELSE LogAfterReturn(l)

logVars == <<vin, vout, ver, verOut, proxyIn, proxyOut, conn, net, serverVars, rate>>

\* isConfigured of connection i starts: its first log call, then the first GET.
LogIsConfigured ==
    /\ logs.step = "start"
    /\ logs' = [logs EXCEPT
                  !.step = "cv",
                  !.written = [t \in ApiTokens |->
                                  logs.written[t] \o LogIsConfiguredStart(AliasName(logs.i))]]
    /\ UNCHANGED logVars

\* The GET /api/v1/config/clusterversion of validateConnection settles.
LogClusterVersionProbeResponds ==
    /\ logs.step = "cv"
    /\ \E o \in HttpOutcomes :
          logs' = IF validateConnectionFirst(o) = "fallback"
                  THEN [logs EXCEPT
                          !.step = "metrics",
                          !.written = [t \in ApiTokens |->
                              logs.written[t]
                                  \o LogValidateConnectionFirst(AliasName(logs.i), o, t)]]
                  ELSE [LogAfterConnected(logs, validateConnectionFirst(o)) EXCEPT
                          !.written = [t \in ApiTokens |->
                              logs.written[t]
                                  \o LogIsConfiguredOnConnected(validateConnectionFirst(o))]]
    /\ UNCHANGED logVars

\* The fallback GET /api/v2/metrics of validateConnection settles.
LogMetricsProbeResponds ==
    /\ logs.step = "metrics"
    /\ \E o \in HttpOutcomes :
          logs' = [LogAfterConnected(logs, validateConnectionFallback(o)) EXCEPT
                     !.written = [t \in ApiTokens |->
                         logs.written[t]
                             \o LogValidateConnectionFallback(AliasName(logs.i), o, t)
                             \o LogIsConfiguredOnConnected(validateConnectionFallback(o))]]
    /\ UNCHANGED logVars

\* The GET of getClusterVersion settles; isConfigured runs to its return.
LogClusterVersionFetchResponds ==
    /\ logs.step = "fetch"
    /\ \E f \in FetchOutcomes :
          logs' = [LogAfterReturn(logs) EXCEPT
                     !.written = [t \in ApiTokens |->
                         logs.written[t]
                             \o LogIsConfiguredOnFetch(AliasName(logs.i), WireBody(f),
                                                       MINIMUM_VERSION)]]
    /\ UNCHANGED logVars

\* A tool is called and the GET of its makeRequests settles: a response is not
\* logged at the default level, a rejection reaches the wrapper's catch block.
LogToolCallSettles ==
    /\ logs.step = "ready"
    /\ logs.queries < MaxQueries
    /\ \E ok \in BOOLEAN :
          logs' = [logs EXCEPT
                     !.queries = logs.queries + 1,
                     !.written = [t \in ApiTokens |->
                         logs.written[t] \o (IF ok THEN <<>> ELSE LogToolFailure(t))]]
    /\ UNCHANGED logVars

NextLog ==
    \/ LogIsConfigured
    \/ LogClusterVersionProbeResponds
    \/ LogMetricsProbeResponds
    \/ LogClusterVersionFetchResponds
    \/ LogToolCallSettles

SpecLog == InitLog /\ [][NextLog]_vars

\* C23: the apiToken is never logged: the runs that differ only in the
\* apiToken and see the same remote behaviour have written the same log
\* records.
C23_TokenNeverLogged ==
    \A s, t \in ApiTokens : logs.written[s] = logs.written[t]

=============================================================================
